---- MODULE Spec2Model ----
(***************************************************************************)
(* The benchmarking worker agent (worker/worker_agent.py) with the routing *)
(* policy it shares with the orchestrator (core/job_dispatcher.py).        *)
(*                                                                         *)
(* Three tasks are modelled: the supervisor (main -> start_job_loop ->     *)
(* execute_benchmark_job), the heartbeat thread (_heartbeat_loop) and the  *)
(* measurement child process the supervisor spawns and waits for.  The     *)
(* environment is the orchestrator (registration, job details, status,     *)
(* heartbeat replies, job pushes), the queue broker, the operating system  *)
(* (child exit, keyboard interrupt).                                       *)
(*                                                                         *)
(* Python strings that are normalised or concatenated are sequences of     *)
(* one-character strings, so that lower(), replace() and + are computed.   *)
(***************************************************************************)
EXTENDS Naturals, Sequences, FiniteSets, TLC

\* ---------------------------------------------------------------- bounds

\* Number of job ids the orchestrator pushes in one behaviour.
MaxJobs == 2

\* ---------------------------------------------------------------- strings

JobsPrefix == <<"j","o","b","s",":">>

CapabilityPrefix == <<"j","o","b","s",":","c","a","p","a","b","i","l","i","t","y",":">>

CPU_ONNX == <<"C","P","U"," ","(","O","N","N","X",")">>

GPU_ONNX == <<"G","P","U"," ","(","O","N","N","X",")">>

DirectML_ONNX == <<"D","i","r","e","c","t","M","L"," ","(","O","N","N","X",")">>

OpenVINO_ONNX == <<"O","p","e","n","V","I","N","O"," ","(","O","N","N","X",")">>

GPU_CoreML == <<"G","P","U"," ","(","C","o","r","e","M","L",")">>

NeuralEngine_CoreML == <<"N","e","u","r","a","l"," ","E","n","g","i","n","e"," ","(","C","o","r","e","M","L",")">>

CPU_Bare == <<"C","P","U">>

\* worker_id before registration (Python None); str(None) is never taken.
NoneId == <<"None">>

EmptyStr == <<>>

W1 == <<"W","1">>

\* Python truthiness of an Optional[str].
Truthy(s) == s # NoneId /\ s # EmptyStr

\* str.lower() on one character.
LowerChar(c) ==
    CASE c = "A" -> "a" [] c = "B" -> "b" [] c = "C" -> "c" [] c = "D" -> "d"
      [] c = "E" -> "e" [] c = "F" -> "f" [] c = "G" -> "g" [] c = "H" -> "h"
      [] c = "I" -> "i" [] c = "J" -> "j" [] c = "K" -> "k" [] c = "L" -> "l"
      [] c = "M" -> "m" [] c = "N" -> "n" [] c = "O" -> "o" [] c = "P" -> "p"
      [] c = "Q" -> "q" [] c = "R" -> "r" [] c = "S" -> "s" [] c = "T" -> "t"
      [] c = "U" -> "u" [] c = "V" -> "v" [] c = "W" -> "w" [] c = "X" -> "x"
      [] c = "Y" -> "y" [] c = "Z" -> "z" [] OTHER -> c

StrLower(s) == [i \in 1..Len(s) |-> LowerChar(s[i])]

\* str.replace(a, b) for a one-character a and a replacement string b.
RECURSIVE StrReplace(_, _, _)
StrReplace(s, a, b) ==
    IF s = <<>> THEN <<>>
    ELSE (IF Head(s) = a THEN b ELSE <<Head(s)>>) \o StrReplace(Tail(s), a, b)

\* A normalisation that keeps only the lower-cased text before the first space.
NormaliseUnitOnly(capability) ==
    LET low == StrLower(capability)
        spaces == {i \in 1..Len(low) : low[i] = " "}
    IN  IF spaces = {} THEN low
        ELSE SubSeq(low, 1, (CHOOSE i \in spaces : \A j \in spaces : i <= j) - 1)

\* capability.lower().replace(' ', '_').replace('(', '').replace(')', '')
Normalise(capability) ==
    StrReplace(StrReplace(StrReplace(StrLower(capability), " ", <<"_">>), "(", <<>>), ")", <<>>)

\* str.strip() of leading whitespace.
RECURSIVE LStrip(_)
LStrip(s) ==
    IF s # <<>> /\ Head(s) \in {" ", "\n", "\t"} THEN LStrip(Tail(s)) ELSE s

\* str.strip() of trailing whitespace.
RECURSIVE RStrip(_)
RStrip(s) ==
    IF s # <<>> /\ s[Len(s)] \in {" ", "\n", "\t"}
    THEN RStrip(SubSeq(s, 1, Len(s) - 1)) ELSE s

\* str.strip()
Strip(s) == RStrip(LStrip(s))

\* ---------------------------------------------------------------- routing

\* JobDispatcher.get_worker_queue_priority, with the personal queue put last.
GetWorkerQueuePriorityPersonalLast(worker_id, capabilities) ==
    [i \in 1..Len(capabilities) |-> CapabilityPrefix \o Normalise(capabilities[i])]
        \o <<JobsPrefix \o worker_id>>

\* JobDispatcher.get_worker_queue_priority
GetWorkerQueuePriority(worker_id, capabilities) ==
    <<JobsPrefix \o worker_id>>
        \o [i \in 1..Len(capabilities) |-> CapabilityPrefix \o Normalise(capabilities[i])]

\* A job descriptor is a Python dict: a function whose domain is the set of
\* keys present.  A key mapped to NoneId counts as absent for dict.get.
Get(d, k) == IF k \in DOMAIN d THEN d[k] ELSE NoneId

\* determine_queues with the capability queue preferred to the worker's queue.
DetermineQueuesCapabilityFirst(info) ==
    LET wid == Get(info, "worker_id")
        compute_unit == Get(info, "compute_unit")
    IN  IF Truthy(compute_unit) THEN <<CapabilityPrefix \o Normalise(compute_unit)>>
        ELSE IF Truthy(wid) THEN <<JobsPrefix \o wid>>
        ELSE <<>>

\* JobDispatcher.determine_queues
DetermineQueues(job_info) ==
    LET worker_id == Get(job_info, "worker_id")
        compute_unit == Get(job_info, "compute_unit")
    IN  IF Truthy(worker_id) THEN <<JobsPrefix \o worker_id>>
        ELSE IF Truthy(compute_unit) THEN <<CapabilityPrefix \o Normalise(compute_unit)>>
        ELSE <<>>

\* ---------------------------------------------------------------- device probe

\* The facts get_compute_units probes: whether onnxruntime imports, the
\* providers it advertises, platform.system(), whether coremltools imports and
\* whether the CPU brand string contains 'Apple'.
Devices ==
    { [ort |-> TRUE, providers |-> {"CPUExecutionProvider"},
       system |-> "Linux", coreml |-> FALSE, apple |-> FALSE],
      [ort |-> TRUE, providers |-> {"CPUExecutionProvider"},
       system |-> "Darwin", coreml |-> TRUE, apple |-> TRUE] }

\* The machine the agent of the job-loop specification runs on: an Apple
\* silicon Mac with onnxruntime and coremltools installed.
AgentDevice ==
    [ort |-> TRUE, providers |-> {"CPUExecutionProvider"},
     system |-> "Darwin", coreml |-> TRUE, apple |-> TRUE]

\* get_compute_units
GetComputeUnits(dev) ==
    LET onnx == IF dev.ort
                THEN <<CPU_ONNX>>
                     \o (IF "CUDAExecutionProvider" \in dev.providers THEN <<GPU_ONNX>> ELSE <<>>)
                     \o (IF "DmlExecutionProvider" \in dev.providers THEN <<DirectML_ONNX>> ELSE <<>>)
                     \o (IF "OpenVINOExecutionProvider" \in dev.providers THEN <<OpenVINO_ONNX>> ELSE <<>>)
                ELSE <<CPU_Bare>>
        InSeq(x, s) == \E i \in 1..Len(s) : s[i] = x
        withGpu == IF dev.system = "Darwin" /\ dev.coreml /\ dev.apple /\ ~InSeq(GPU_CoreML, onnx)
                   THEN onnx \o <<GPU_CoreML>> ELSE onnx
    IN  IF dev.system = "Darwin" /\ dev.coreml /\ dev.apple /\ ~InSeq(NeuralEngine_CoreML, withGpu)
        THEN withGpu \o <<NeuralEngine_CoreML>> ELSE withGpu

\* ---------------------------------------------------------------- state

VARIABLES
    pc,                 \* where the supervisor (main thread) is
    worker_id,          \* WorkerAgent.worker_id
    running,            \* WorkerAgent.running
    heartbeat_running,  \* WorkerAgent.heartbeat_running
    queue_names,        \* start_job_loop's local queue_names
    job_id,             \* start_job_loop's local job_id (0: none)
    job_info,           \* the descriptor get_job_details returned
    result,             \* the record execute_benchmark_job returned
    hbPc,               \* where the heartbeat thread is ("none": no thread)
    child,              \* the Popen object _run_benchmark_task holds
    orphans,            \* children still alive that the supervisor no longer waits for
    device,             \* what the device probe sees
    queues,             \* broker: job queues, key -> FIFO of job ids
    results,            \* broker: the results list
    pushed,             \* how many job ids the orchestrator has pushed
    regResult,          \* what register_with_orchestrator returned to main
    ops,                \* operations issued so far, each with the worker_id it used
    popped,             \* job ids popped so far
    dropped,            \* job ids dropped because their details could not be fetched
    statusLog,          \* statuses sent during the current execute_benchmark_job
    lastStatus,         \* the last status sent to the orchestrator
    phaseLog,           \* phase events of the current job
    exitCause,          \* why the job loop was left
    interruptedJob,     \* the job whose measurement a keyboard interrupt hit (0: none)
    model_file,         \* whether the file at execute_benchmark_job's model_path exists
    error,              \* str(e) of the exception execute_benchmark_job caught
    childStderr,        \* what the child that exited non-zero in this job wrote to stderr
    heartbeat_interval, \* WorkerAgent.heartbeat_interval
    heartbeat_thread,   \* WorkerAgent.heartbeat_thread: which Thread object (0: None)
    stale,              \* positions of earlier heartbeat threads that are still alive
    hbTick,             \* the heartbeat loop's current iteration: requests sent, reply
    isConnected,        \* what is_connected() answered to start_job_loop
    call,               \* the last call a client of the module made: operation, argument, result
    monitor             \* one _run_benchmark_task call and its monitor thread

supVars == <<pc, worker_id, running, queue_names, job_id, job_info, result, error>>

hbVars == <<heartbeat_running, hbPc, heartbeat_interval, heartbeat_thread, stale, hbTick>>

envVars == <<child, orphans, device, queues, results, pushed, model_file>>

histVars == <<regResult, ops, popped, dropped, statusLog, lastStatus, phaseLog,
              exitCause, interruptedJob, childStderr, isConnected, call>>

vars == <<supVars, hbVars, envVars, histVars, monitor>>

\* The empty dict; get_job_details' None is falsy in the same way.
NoInfo == [k \in {} |-> NoneId]

NoChild == [task |-> "none", st |-> "none", err |-> EmptyStr]

\* The benchmark metric keys of a result record, by group: LoadMs stands for
\* the six LoadMs* keys of run_load_task, InferenceMs for the six
\* InferenceMs* keys of run_infer_task.
MetricKeys ==
    {"LoadMs", "PeakLoadRamUsage", "AverageLoadCpuPercent",
     "InferenceMs", "PeakInferenceRamUsage", "AverageInferenceCpuPercent"}

\* The device descriptor keys execute_benchmark_job copies from get_device_info.
DeviceKeys ==
    {"DeviceName", "DeviceOs", "DeviceOsVersion", "DeviceYear", "Soc", "Ram",
     "DiscreteGpu", "VRam"}

\* No record: the local result before execute_benchmark_job returned.
NoResult ==
    [job_id |-> 0, status |-> "none", remark |-> NoneId, FileName |-> "", FileSize |-> 0,
     ComputeUnits |-> NoneId, device |-> {}, metrics |-> {}]

\* The heartbeat loop is not inside an iteration.
NoTick == [posts |-> 0, reply |-> "none", slept |-> 0]

\* No call has been made; n counts the calls.
NoCall == [op |-> "none", n |-> 0, arg |-> NoInfo, ret |-> <<>>]

\* No _run_benchmark_task call is under way.  runner and thread are the
\* positions of the caller and of the monitor thread; peak_ram and cpu_samples
\* are _monitor_subprocess's locals, results the dict the two threads share
\* (a function on the keys present) and ret what the call returned.
NoMonitor ==
    [runner |-> "none", thread |-> "none", peak_ram |-> 0, cpu_samples |-> <<>>,
     results |-> NoInfo, ret |-> NoInfo]

WORKER_STATUS_ACTIVE == "active"

WORKER_STATUS_BUSY == "busy"

RESULT_STATUS_COMPLETE == "Complete"

RESULT_STATUS_FAILED == "Failed"

\* Capabilities the orchestrator routes jobs to in this model.
PushCaps == {CPU_ONNX, GPU_CoreML}

QueueKeys == {JobsPrefix \o W1} \cup {CapabilityPrefix \o Normalise(c) : c \in PushCaps}

\* Broker list under a key; a key never pushed to is an empty list.
Queue(k) == IF k \in DOMAIN queues THEN queues[k] ELSE <<>>

\* The supervisor positions inside start_job_loop's try block.
TryPcs == {"loop", "pop", "details", "exec", "busy", "download", "load_spawn",
           "load_wait", "infer_spawn", "infer_wait", "cleanup", "ok_active",
           "fail_active", "publish"}

\* The supervisor positions inside start_job_loop but outside its try block.
OutsideTryPcs == {"precheck", "hb_start", "set_running", "finally", "finally2"}

\* The supervisor positions inside execute_benchmark_job.
ExecPcs == {"exec", "busy", "download", "load_spawn", "load_wait", "infer_spawn",
            "infer_wait", "cleanup", "ok_active", "fail_active"}

Init ==
    /\ pc = "main"
    /\ worker_id = NoneId
    /\ running = FALSE
    /\ heartbeat_running = FALSE
    /\ queue_names = <<>>
    /\ job_id = 0
    /\ job_info = NoInfo
    /\ result = NoResult
    /\ hbPc = "none"
    /\ child = NoChild
    /\ orphans = {}
    /\ device = AgentDevice
    /\ queues = [k \in QueueKeys |-> <<>>]
    /\ results = <<>>
    /\ pushed = 0
    /\ regResult = "none"
    /\ ops = {}
    /\ popped = {}
    /\ dropped = {}
    /\ statusLog = <<>>
    /\ lastStatus = "none"
    /\ phaseLog = <<>>
    /\ exitCause = "none"
    /\ interruptedJob = 0
    /\ model_file = FALSE
    /\ error = NoneId
    /\ childStderr = NoneId
    /\ heartbeat_interval = 10
    /\ heartbeat_thread = 0
    /\ stale = <<>>
    /\ hbTick = NoTick
    /\ isConnected = "unasked"
    /\ call = NoCall
    /\ monitor = NoMonitor

\* An operation issued to the orchestrator or the broker, with the worker id
\* the request carries.
Op(kind) == [kind |-> kind, worker_id |-> worker_id]

\* An exception leaves start_job_loop's try block for its except and finally
\* blocks (lines 511-520): the locals of the iteration and the record of the
\* current job are dead from here on.
LeaveTry(cause) ==
    /\ pc' = "finally"
    /\ exitCause' = cause
    /\ queue_names' = <<>>
    /\ job_id' = 0
    /\ job_info' = NoInfo
    /\ result' = NoResult
    /\ error' = NoneId
    /\ statusLog' = <<>>
    /\ phaseLog' = <<>>
    /\ childStderr' = NoneId

\* ---------------------------------------------------------------- main, registration

\* main line 547 with register_with_orchestrator: a 200 reply whose body
\* carries worker_id.  The orchestrator chooses the id.
RegisterOk ==
    /\ pc = "main"
    /\ \E wid \in {W1, EmptyStr} :
         /\ worker_id' = wid
         /\ regResult' = "ok"
         /\ pc' = "precheck"
    /\ UNCHANGED <<running, heartbeat_running, queue_names, job_id, job_info, result,
                   hbPc, child, orphans, device, queues, results, pushed, ops, popped,
                   dropped, statusLog, lastStatus, phaseLog, exitCause, interruptedJob,
                   model_file, error, childStderr, heartbeat_interval,
                   heartbeat_thread, stale, hbTick, isConnected, call, monitor>>

\* main going on to start_job_loop after a failed registration.
RegisterFailContinues ==
    /\ pc = "main"
    /\ regResult' = "fail"
    /\ pc' = "precheck"
    /\ UNCHANGED <<worker_id, running, heartbeat_running, queue_names, job_id,
                   job_info, result, hbPc, child, orphans, device, queues, results,
                   pushed, ops, popped, dropped, statusLog, lastStatus, phaseLog,
                   exitCause, interruptedJob, model_file, error, childStderr,
                   heartbeat_interval, heartbeat_thread, stale, hbTick, isConnected,
                   call, monitor>>

\* register_with_orchestrator: a non-200 reply, a timeout, a body without
\* worker_id or any other exception; main returns 1.
RegisterFail ==
    /\ pc = "main"
    /\ regResult' = "fail"
    /\ pc' = "exit1"
    /\ UNCHANGED <<worker_id, running, heartbeat_running, queue_names, job_id,
                   job_info, result, hbPc, child, orphans, device, queues, results,
                   pushed, ops, popped, dropped, statusLog, lastStatus, phaseLog,
                   exitCause, interruptedJob, model_file, error, childStderr,
                   heartbeat_interval, heartbeat_thread, stale, hbTick, isConnected,
                   call, monitor>>

\* ---------------------------------------------------------------- start_job_loop

\* start_job_loop's precondition without the worker_id test.
PrecheckNoWorkerIdTest ==
    /\ pc = "precheck"
    /\ \E connected \in BOOLEAN :
         /\ isConnected' = IF connected THEN "yes" ELSE "no"
         /\ pc' = IF ~connected THEN "returned" ELSE "hb_start"
    /\ UNCHANGED <<worker_id, running, heartbeat_running, queue_names, job_id,
                   job_info, result, hbPc, child, orphans, device, queues, results,
                   pushed, regResult, ops, popped, dropped, statusLog, lastStatus,
                   phaseLog, exitCause, interruptedJob, model_file, error, childStderr,
                   heartbeat_interval, heartbeat_thread, stale, hbTick, call, monitor>>

\* start_job_loop's precondition without the is_connected test.
PrecheckNoConnectedTest ==
    /\ pc = "precheck"
    /\ IF ~Truthy(worker_id)
       THEN /\ pc' = "returned"
            /\ UNCHANGED isConnected
       ELSE \E connected \in BOOLEAN :
              /\ isConnected' = IF connected THEN "yes" ELSE "no"
              /\ pc' = "hb_start"
    /\ UNCHANGED <<worker_id, running, heartbeat_running, queue_names, job_id,
                   job_info, result, hbPc, child, orphans, device, queues, results,
                   pushed, regResult, ops, popped, dropped, statusLog, lastStatus,
                   phaseLog, exitCause, interruptedJob, model_file, error, childStderr,
                   heartbeat_interval, heartbeat_thread, stale, hbTick, call, monitor>>

\* start_job_loop lines 479-485: registered and the broker connected, or return.
Precheck ==
    /\ pc = "precheck"
    /\ IF ~Truthy(worker_id)
       THEN /\ pc' = "returned"
            /\ UNCHANGED isConnected
       ELSE \E connected \in BOOLEAN :
              /\ isConnected' = IF connected THEN "yes" ELSE "no"
              /\ pc' = IF ~connected THEN "returned" ELSE "hb_start"
    /\ UNCHANGED <<worker_id, running, heartbeat_running, queue_names, job_id,
                   job_info, result, hbPc, child, orphans, device, queues, results,
                   pushed, regResult, ops, popped, dropped, statusLog, lastStatus,
                   phaseLog, exitCause, interruptedJob, model_file, error, childStderr,
                   heartbeat_interval, heartbeat_thread, stale, hbTick, call, monitor>>

\* start_continuous_heartbeat without its test of heartbeat_running.
start_continuous_heartbeat_unguarded(interval) ==
    /\ heartbeat_interval' = interval
    /\ heartbeat_running' = TRUE
    /\ heartbeat_thread' = heartbeat_thread + 1
    /\ stale' = IF hbPc \in {"none", "done"} THEN stale ELSE Append(stale, hbPc)
    /\ hbPc' = "check"
    /\ hbTick' = NoTick

\* start_continuous_heartbeat lines 90-105: a no-op (with a warning) when
\* the ticker is on; otherwise interval and flag are set and a new Thread
\* object replaces heartbeat_thread and is started.  A thread the attribute
\* referred to before, if still alive, runs on unreferenced.
start_continuous_heartbeat(interval) ==
    IF heartbeat_running
    THEN UNCHANGED <<heartbeat_running, heartbeat_interval, heartbeat_thread, hbPc,
                     stale, hbTick>>
    ELSE /\ heartbeat_interval' = interval
         /\ heartbeat_running' = TRUE
         /\ heartbeat_thread' = heartbeat_thread + 1
         /\ stale' = IF hbPc \in {"none", "done"} THEN stale ELSE Append(stale, hbPc)
         /\ hbPc' = "check"
         /\ hbTick' = NoTick

\* stop_continuous_heartbeat lines 107-116: nothing when the ticker is off;
\* otherwise the flag is cleared and the thread joined for at most 2 s, so the
\* caller goes on whether or not the thread has ended.
stop_continuous_heartbeat ==
    IF ~heartbeat_running
    THEN UNCHANGED <<heartbeat_running, heartbeat_interval, heartbeat_thread, hbPc,
                     stale, hbTick>>
    ELSE /\ heartbeat_running' = FALSE
         /\ UNCHANGED <<heartbeat_interval, heartbeat_thread, hbPc, stale, hbTick>>

\* start_job_loop line 488: start_continuous_heartbeat(interval=10)
StartContinuousHeartbeat ==
    /\ pc = "hb_start"
    /\ start_continuous_heartbeat(10)
    /\ pc' = "set_running"
    /\ UNCHANGED <<worker_id, running, queue_names, job_id, job_info, result, child,
                   orphans, device, queues, results, pushed, regResult, ops, popped,
                   dropped, statusLog, lastStatus, phaseLog, exitCause, interruptedJob,
                   model_file, error, childStderr, isConnected, call, monitor>>

\* start_job_loop lines 490-491
SetRunning ==
    /\ pc = "set_running"
    /\ running' = TRUE
    /\ pc' = "loop"
    /\ UNCHANGED <<worker_id, heartbeat_running, queue_names, job_id, job_info, result,
                   hbPc, child, orphans, device, queues, results, pushed, regResult,
                   ops, popped, dropped, statusLog, lastStatus, phaseLog, exitCause,
                   interruptedJob, model_file, error, childStderr, heartbeat_interval,
                   heartbeat_thread, stale, hbTick, isConnected, call, monitor>>

\* get_job_queue_names
GetJobQueueNames == GetWorkerQueuePriority(worker_id, GetComputeUnits(device))

\* start_job_loop lines 494-496: the while test, the queue list, and the
\* blocking pop is issued.  The locals of the previous iteration are dead.
LoopTop ==
    /\ pc = "loop"
    /\ IF running
       THEN /\ queue_names' = GetJobQueueNames
            /\ ops' = ops \cup {Op("pop")}
            /\ pc' = "pop"
       ELSE /\ UNCHANGED <<queue_names, ops>>
            /\ pc' = "finally"
    /\ job_id' = 0
    /\ job_info' = NoInfo
    /\ result' = NoResult
    /\ statusLog' = <<>>
    /\ phaseLog' = <<>>
    /\ error' = NoneId
    /\ childStderr' = NoneId
    /\ UNCHANGED <<worker_id, running, heartbeat_running, hbPc, child, orphans, device,
                   queues, results, pushed, regResult, popped, dropped, lastStatus,
                   exitCause, interruptedJob, model_file, heartbeat_interval,
                   heartbeat_thread, stale, hbTick, isConnected, call, monitor>>

\* The first key of names, in argument order, whose list is not empty (0: none).
FirstNonEmpty(names) ==
    IF \E i \in 1..Len(names) : Queue(names[i]) # <<>>
    THEN CHOOSE i \in 1..Len(names) :
           /\ Queue(names[i]) # <<>>
           /\ \A h \in 1..(i - 1) : Queue(names[h]) = <<>>
    ELSE 0

\* pop_job(queue_names, timeout=0) returns: the head of the first listed key
\* that has a value is removed and returned.
PopJob ==
    /\ pc = "pop"
    /\ FirstNonEmpty(queue_names) # 0
    /\ LET k == queue_names[FirstNonEmpty(queue_names)]
       IN  /\ job_id' = Head(queues[k])
           /\ queues' = [queues EXCEPT ![k] = Tail(queues[k])]
           /\ popped' = popped \cup {Head(queues[k])}
    /\ pc' = "details"
    /\ UNCHANGED <<worker_id, running, heartbeat_running, queue_names, job_info,
                   result, hbPc, child, orphans, device, results, pushed, regResult,
                   ops, dropped, statusLog, lastStatus, phaseLog, exitCause,
                   interruptedJob, model_file, error, childStderr, heartbeat_interval,
                   heartbeat_thread, stale, hbTick, isConnected, call, monitor>>

\* pop_job returns none: start_job_loop lines 508-509 sleep and loop.
PopNone ==
    /\ pc = "pop"
    /\ FirstNonEmpty(queue_names) = 0
    /\ pc' = "loop"
    /\ UNCHANGED <<worker_id, running, heartbeat_running, queue_names, job_id,
                   job_info, result, hbPc, child, orphans, device, queues, results,
                   pushed, regResult, ops, popped, dropped, statusLog, lastStatus,
                   phaseLog, exitCause, interruptedJob, model_file, error, childStderr,
                   heartbeat_interval, heartbeat_thread, stale, hbTick, isConnected,
                   call, monitor>>

\* pop_job raises (the broker is gone): start_job_loop lines 514-515.
PopRaise ==
    /\ pc = "pop"
    /\ LeaveTry("queue_error")
    /\ UNCHANGED <<worker_id, running, heartbeat_running, hbPc, child, orphans, device,
                   queues, results, pushed, regResult, ops, popped, dropped,
                   lastStatus, interruptedJob, model_file, heartbeat_interval,
                   heartbeat_thread, stale, hbTick, isConnected, call, monitor>>

\* ---------------------------------------------------------------- job details

\* What the orchestrator may hold for a job id: a full descriptor whose
\* model_url is a URL, one whose model_url is the path of a local file, or one
\* without model_url.
Descriptors(j) ==
    { [job_id |-> j, model_url |-> "m.onnx", compute_unit |-> CPU_ONNX],
      [job_id |-> j, model_url |-> "local.onnx", compute_unit |-> CPU_ONNX],
      [job_id |-> j, compute_unit |-> CPU_ONNX] }

\* A failed details fetch that publishes a Failed record for the id.
GetJobDetailsFailPublishes ==
    /\ pc = "details"
    /\ job_info' = NoInfo
    /\ dropped' = dropped \cup {job_id}
    /\ results' = Append(results, [NoResult EXCEPT !.job_id = job_id,
                                                    !.status = RESULT_STATUS_FAILED])
    /\ pc' = "loop"
    /\ UNCHANGED <<worker_id, running, heartbeat_running, queue_names, job_id, result,
                   hbPc, child, orphans, device, queues, pushed, regResult, ops,
                   popped, statusLog, lastStatus, phaseLog, exitCause, interruptedJob,
                   model_file, error, childStderr, heartbeat_interval,
                   heartbeat_thread, stale, hbTick, isConnected, call, monitor>>

\* get_job_details returns None (non-200, timeout, any exception) or a falsy
\* 'job'; start_job_loop lines 506-507 log a warning and loop.
GetJobDetailsFail ==
    /\ pc = "details"
    /\ job_info' = NoInfo
    /\ dropped' = dropped \cup {job_id}
    /\ pc' = "loop"
    /\ UNCHANGED <<worker_id, running, heartbeat_running, queue_names, job_id, result,
                   hbPc, child, orphans, device, queues, results, pushed, regResult,
                   ops, popped, statusLog, lastStatus, phaseLog, exitCause,
                   interruptedJob, model_file, error, childStderr, heartbeat_interval,
                   heartbeat_thread, stale, hbTick, isConnected, call, monitor>>

\* get_job_details returns the descriptor; start_job_loop line 504 calls
\* execute_benchmark_job.
GetJobDetailsOk ==
    /\ pc = "details"
    /\ \E info \in Descriptors(job_id) : job_info' = info
    /\ pc' = "exec"
    /\ UNCHANGED <<worker_id, running, heartbeat_running, queue_names, job_id, result,
                   hbPc, child, orphans, device, queues, results, pushed, regResult,
                   ops, popped, dropped, statusLog, lastStatus, phaseLog, exitCause,
                   interruptedJob, model_file, error, childStderr, heartbeat_interval,
                   heartbeat_thread, stale, hbTick, isConnected, call, monitor>>

\* ---------------------------------------------------------------- execute_benchmark_job

\* Lines 350-357: job_info['job_id'] and job_info['model_url'] are read
\* before the try block.  A missing key raises KeyError out of
\* execute_benchmark_job into start_job_loop's except Exception (514-515).
ExecEntry ==
    /\ pc = "exec"
    /\ IF {"job_id", "model_url"} \subseteq DOMAIN job_info
       THEN /\ pc' = "busy"
            /\ UNCHANGED <<exitCause, queue_names, job_id, job_info, result, error,
                           statusLog, phaseLog, childStderr, monitor>>
       ELSE LeaveTry("job_error")
    /\ UNCHANGED <<worker_id, running, heartbeat_running, hbPc, child, orphans, device,
                   queues, results, pushed, regResult, ops, popped, dropped,
                   lastStatus, interruptedJob, model_file, heartbeat_interval,
                   heartbeat_thread, stale, hbTick, isConnected, call, monitor>>

\* Line 352: job_info.get('compute_unit', 'CPU')
ComputeUnit(info) ==
    IF "compute_unit" \in DOMAIN info THEN info["compute_unit"] ELSE CPU_Bare

\* _update_status: the request is sent; a non-200 reply or an exception is
\* logged and swallowed.
SendStatus(status) ==
    /\ statusLog' = Append(statusLog, status)
    /\ lastStatus' = status
    /\ ops' = ops \cup {Op("status")}

\* Line 359
UpdateBusy ==
    /\ pc = "busy"
    /\ SendStatus(WORKER_STATUS_BUSY)
    /\ pc' = "download"
    /\ UNCHANGED <<worker_id, running, heartbeat_running, queue_names, job_id,
                   job_info, result, hbPc, child, orphans, device, queues, results,
                   pushed, regResult, popped, dropped, phaseLog, exitCause,
                   interruptedJob, model_file, error, childStderr, heartbeat_interval,
                   heartbeat_thread, stale, hbTick, isConnected, call, monitor>>

\* The values of model_url that are paths of files on the worker's disk when
\* the job names them (model_loader.download_model line 41, os.path.exists).
LocalFiles == {"local.onnx"}

\* Lines 362-368: download_model returned a path (model_url itself when it is
\* an existing local file, model_loader lines 41-43) and its size was read.
DownloadOk ==
    /\ pc = "download"
    /\ model_file' = TRUE
    /\ phaseLog' = Append(phaseLog, "download")
    /\ pc' = "load_spawn"
    /\ UNCHANGED <<worker_id, running, heartbeat_running, queue_names, job_id,
                   job_info, result, hbPc, child, orphans, device, queues, results,
                   pushed, regResult, ops, popped, dropped, statusLog, lastStatus,
                   exitCause, interruptedJob, error, childStderr, heartbeat_interval,
                   heartbeat_thread, stale, hbTick, isConnected, call, monitor>>

\* str(e) of download_model's ValueError (line 77), without the url and the
\* cause it quotes.
DownloadError ==
    <<"F","a","i","l","e","d"," ","t","o"," ","d","o","w","n","l","o","a","d"," ","m","o","d","e","l">>

\* A failed download that is not raised: the job goes on to the load phase.
DownloadFailContinues ==
    /\ pc = "download"
    /\ model_file' = FALSE
    /\ error' = DownloadError
    /\ phaseLog' = Append(phaseLog, "download")
    /\ pc' = "load_spawn"
    /\ UNCHANGED <<worker_id, running, heartbeat_running, queue_names, job_id,
                   job_info, result, hbPc, child, orphans, device, queues, results,
                   pushed, regResult, ops, popped, dropped, statusLog, lastStatus,
                   exitCause, interruptedJob, childStderr, heartbeat_interval,
                   heartbeat_thread, stale, hbTick, isConnected, call, monitor>>

\* Lines 362-363 raise: download_model removed what it had written (lines
\* 74-77) and raised ValueError; the except block follows.
DownloadFail ==
    /\ pc = "download"
    /\ job_info["model_url"] \notin LocalFiles
    /\ model_file' = FALSE
    /\ error' = DownloadError
    /\ phaseLog' = Append(phaseLog, "download")
    /\ pc' = "fail_active"
    /\ UNCHANGED <<worker_id, running, heartbeat_running, queue_names, job_id,
                   job_info, result, hbPc, child, orphans, device, queues, results,
                   pushed, regResult, ops, popped, dropped, statusLog, lastStatus,
                   exitCause, interruptedJob, childStderr, heartbeat_interval,
                   heartbeat_thread, stale, hbTick, isConnected, call, monitor>>

SpawnEvent(task) == IF task = "load" THEN "load_spawn" ELSE "infer_spawn"

ExitEvent(task) == IF task = "load" THEN "load_exit" ELSE "infer_exit"

\* _run_benchmark_task lines 237-257: Popen started the child.
Spawn(task, from, to) ==
    /\ pc = from
    /\ child' = [task |-> task, st |-> "running", err |-> EmptyStr]
    /\ phaseLog' = Append(phaseLog, SpawnEvent(task))
    /\ pc' = to

\* str(e) of the OSError Popen raises.
SpawnError == <<"O","S","E","r","r","o","r">>

\* _run_benchmark_task lines 241-248 raise (Popen or psutil.Process): no
\* child is left, the except block of execute_benchmark_job runs.
SpawnRaise(from) ==
    /\ pc = from
    /\ error' = SpawnError
    /\ pc' = "fail_active"

BenchmarkFailedPrefix ==
    <<"B","e","n","c","h","m","a","r","k"," ","t","a","s","k"," ","f","a","i","l","e","d",":"," ">>

UnknownError == <<"U","n","k","n","o","w","n"," ","e","r","r","o","r">>

\* Line 271, without the decoder's message.
ParseError ==
    <<"F","a","i","l","e","d"," ","t","o"," ","p","a","r","s","e"," ","t","a","s","k"," ","o","u","t","p","u","t">>

\* _run_benchmark_task lines 264-266: the message of the RuntimeError raised
\* for a non-zero exit code.
TaskError(stderr) ==
    BenchmarkFailedPrefix \o (IF stderr # EmptyStr THEN Strip(stderr) ELSE UnknownError)

\* _run_benchmark_task lines 260-276: communicate returns once the child
\* has exited; exit code 0 with parseable output goes on, anything else raises
\* RuntimeError into the except block.
Communicate(task, from, to) ==
    /\ pc = from
    /\ child.task = task
    /\ child.st # "running"
    /\ child' = NoChild
    /\ phaseLog' = Append(phaseLog, ExitEvent(task))
    /\ pc' = IF child.st = "exit0" THEN to ELSE "fail_active"
    /\ error' = IF child.st = "exit0" THEN error
                ELSE IF child.st = "exit1" THEN TaskError(child.err)
                ELSE ParseError
    /\ childStderr' = IF child.st = "exit1" THEN child.err ELSE childStderr

\* Lines 370-377 with the load child started but not waited for.
SpawnLoadNoWait ==
    /\ Spawn("load", "load_spawn", "infer_spawn")
    /\ UNCHANGED <<worker_id, running, heartbeat_running, queue_names, job_id,
                   job_info, result, hbPc, orphans, device, queues, results, pushed,
                   regResult, ops, popped, dropped, statusLog, lastStatus, exitCause,
                   interruptedJob, model_file, error, childStderr, heartbeat_interval,
                   heartbeat_thread, stale, hbTick, isConnected, call, monitor>>

\* Lines 370-377
SpawnLoad ==
    /\ Spawn("load", "load_spawn", "load_wait")
    /\ UNCHANGED <<worker_id, running, heartbeat_running, queue_names, job_id,
                   job_info, result, hbPc, orphans, device, queues, results, pushed,
                   regResult, ops, popped, dropped, statusLog, lastStatus, exitCause,
                   interruptedJob, model_file, error, childStderr, heartbeat_interval,
                   heartbeat_thread, stale, hbTick, isConnected, call, monitor>>

\* Lines 370-377, Popen raising.
SpawnLoadRaise ==
    /\ SpawnRaise("load_spawn")
    /\ UNCHANGED <<worker_id, running, heartbeat_running, queue_names, job_id,
                   job_info, result, hbPc, child, orphans, device, queues, results,
                   pushed, regResult, ops, popped, dropped, statusLog, lastStatus,
                   phaseLog, exitCause, interruptedJob, model_file, childStderr,
                   heartbeat_interval, heartbeat_thread, stale, hbTick, isConnected,
                   call, monitor>>

\* Lines 377-379
LoadReturn ==
    /\ Communicate("load", "load_wait", "infer_spawn")
    /\ UNCHANGED <<worker_id, running, heartbeat_running, queue_names, job_id,
                   job_info, result, hbPc, orphans, device, queues, results, pushed,
                   regResult, ops, popped, dropped, statusLog, lastStatus, exitCause,
                   interruptedJob, model_file, heartbeat_interval, heartbeat_thread,
                   stale, hbTick, isConnected, call, monitor>>

\* Lines 381-389
SpawnInfer ==
    /\ Spawn("infer", "infer_spawn", "infer_wait")
    /\ UNCHANGED <<worker_id, running, heartbeat_running, queue_names, job_id,
                   job_info, result, hbPc, orphans, device, queues, results, pushed,
                   regResult, ops, popped, dropped, statusLog, lastStatus, exitCause,
                   interruptedJob, model_file, error, childStderr, heartbeat_interval,
                   heartbeat_thread, stale, hbTick, isConnected, call, monitor>>

\* Lines 381-389, Popen raising.
SpawnInferRaise ==
    /\ SpawnRaise("infer_spawn")
    /\ UNCHANGED <<worker_id, running, heartbeat_running, queue_names, job_id,
                   job_info, result, hbPc, child, orphans, device, queues, results,
                   pushed, regResult, ops, popped, dropped, statusLog, lastStatus,
                   phaseLog, exitCause, interruptedJob, model_file, childStderr,
                   heartbeat_interval, heartbeat_thread, stale, hbTick, isConnected,
                   call, monitor>>

\* Lines 389-391
InferReturn ==
    /\ Communicate("infer", "infer_wait", "cleanup")
    /\ UNCHANGED <<worker_id, running, heartbeat_running, queue_names, job_id,
                   job_info, result, hbPc, orphans, device, queues, results, pushed,
                   regResult, ops, popped, dropped, statusLog, lastStatus, exitCause,
                   interruptedJob, model_file, heartbeat_interval, heartbeat_thread,
                   stale, hbTick, isConnected, call, monitor>>

\* Lines 393-397: os.remove deletes the file, or raises and the error is only
\* logged.
Cleanup ==
    /\ pc = "cleanup"
    /\ \E removed \in BOOLEAN : model_file' = IF removed THEN FALSE ELSE model_file
    /\ pc' = "ok_active"
    /\ UNCHANGED <<worker_id, running, heartbeat_running, queue_names, job_id,
                   job_info, result, hbPc, child, orphans, device, queues, results,
                   pushed, regResult, ops, popped, dropped, statusLog, lastStatus,
                   phaseLog, exitCause, interruptedJob, error, childStderr,
                   heartbeat_interval, heartbeat_thread, stale, hbTick, isConnected,
                   call, monitor>>

\* Lines 402-425: the Complete record.
CompleteRecord ==
    [job_id |-> job_info["job_id"], status |-> RESULT_STATUS_COMPLETE, remark |-> NoneId,
     FileName |-> job_info["model_url"], FileSize |-> 1,
     ComputeUnits |-> ComputeUnit(job_info), device |-> DeviceKeys, metrics |-> MetricKeys]

\* The Failed record with the metrics of a load phase that had succeeded.
FailedRecordKeepsLoadMetrics ==
    [job_id |-> job_info["job_id"], status |-> RESULT_STATUS_FAILED, remark |-> error,
     FileName |-> "", FileSize |-> 0,
     ComputeUnits |-> ComputeUnit(job_info), device |-> DeviceKeys,
     metrics |-> IF \E i \in 1..Len(phaseLog) : phaseLog[i] = "infer_spawn"
                 THEN {"LoadMs", "PeakLoadRamUsage", "AverageLoadCpuPercent"} ELSE {}]

\* Lines 441-458: the Failed record.
FailedRecord ==
    [job_id |-> job_info["job_id"], status |-> RESULT_STATUS_FAILED, remark |-> error,
     FileName |-> "", FileSize |-> 0,
     ComputeUnits |-> ComputeUnit(job_info), device |-> DeviceKeys, metrics |-> {}]

\* The except block without its status update.
FailedNoActive ==
    /\ pc = "fail_active"
    /\ result' = FailedRecord
    /\ pc' = "publish"
    /\ UNCHANGED <<worker_id, running, heartbeat_running, queue_names, job_id,
                   job_info, hbPc, child, orphans, device, queues, results, pushed,
                   regResult, ops, popped, dropped, statusLog, lastStatus, phaseLog,
                   exitCause, interruptedJob, model_file, error, childStderr,
                   heartbeat_interval, heartbeat_thread, stale, hbTick, isConnected,
                   call, monitor>>

\* Lines 399-431: the Complete record, status back to active.
CompleteActive ==
    /\ pc = "ok_active"
    /\ SendStatus(WORKER_STATUS_ACTIVE)
    /\ result' = CompleteRecord
    /\ pc' = "publish"
    /\ UNCHANGED <<worker_id, running, heartbeat_running, queue_names, job_id,
                   job_info, hbPc, child, orphans, device, queues, results, pushed,
                   regResult, popped, dropped, phaseLog, exitCause, interruptedJob,
                   model_file, error, childStderr, heartbeat_interval,
                   heartbeat_thread, stale, hbTick, isConnected, call, monitor>>

\* Lines 433-458: the except block, status back to active, the Failed record.
FailedActive ==
    /\ pc = "fail_active"
    /\ SendStatus(WORKER_STATUS_ACTIVE)
    /\ result' = FailedRecord
    /\ pc' = "publish"
    /\ UNCHANGED <<worker_id, running, heartbeat_running, queue_names, job_id,
                   job_info, hbPc, child, orphans, device, queues, results, pushed,
                   regResult, popped, dropped, phaseLog, exitCause, interruptedJob,
                   model_file, error, childStderr, heartbeat_interval,
                   heartbeat_thread, stale, hbTick, isConnected, call, monitor>>

\* ---------------------------------------------------------------- publish

\* publish_result that also takes the next job id off the worker's queues
\* while the result is pushed.
PublishOkPrefetch ==
    /\ pc = "publish"
    /\ results' = Append(results, result)
    /\ ops' = ops \cup {Op("result")}
    /\ phaseLog' = Append(phaseLog, "publish")
    /\ pc' = "loop"
    /\ IF FirstNonEmpty(queue_names) # 0
       THEN LET k == queue_names[FirstNonEmpty(queue_names)]
            IN  /\ queues' = [queues EXCEPT ![k] = Tail(queues[k])]
                /\ popped' = popped \cup {Head(queues[k])}
       ELSE UNCHANGED <<queues, popped>>
    /\ UNCHANGED <<worker_id, running, heartbeat_running, queue_names, job_id,
                   job_info, result, hbPc, child, orphans, device, pushed, regResult,
                   dropped, statusLog, lastStatus, exitCause, interruptedJob,
                   model_file, error, childStderr, heartbeat_interval,
                   heartbeat_thread, stale, hbTick, isConnected, call, monitor>>

\* start_job_loop line 505 with publish_result: push_result appended the
\* record to the results list.
PublishOk ==
    /\ pc = "publish"
    /\ results' = Append(results, result)
    /\ ops' = ops \cup {Op("result")}
    /\ phaseLog' = Append(phaseLog, "publish")
    /\ pc' = "loop"
    /\ UNCHANGED <<worker_id, running, heartbeat_running, queue_names, job_id,
                   job_info, result, hbPc, child, orphans, device, queues, pushed,
                   regResult, popped, dropped, statusLog, lastStatus, exitCause,
                   interruptedJob, model_file, error, childStderr, heartbeat_interval,
                   heartbeat_thread, stale, hbTick, isConnected, call, monitor>>

\* publish_result lines 465-469: push_result returned False or raised; the
\* failure is logged and nothing is retried.
PublishFail ==
    /\ pc = "publish"
    /\ ops' = ops \cup {Op("result")}
    /\ phaseLog' = Append(phaseLog, "publish")
    /\ pc' = "loop"
    /\ UNCHANGED <<worker_id, running, heartbeat_running, queue_names, job_id,
                   job_info, result, hbPc, child, orphans, device, queues, results,
                   pushed, regResult, popped, dropped, statusLog, lastStatus,
                   exitCause, interruptedJob, model_file, error, childStderr,
                   heartbeat_interval, heartbeat_thread, stale, hbTick, isConnected,
                   call, monitor>>

\* ---------------------------------------------------------------- leaving the loop

\* The finally block without the call that stops the heartbeat.
FinallyWithoutStop ==
    /\ pc = "finally"
    /\ pc' = "finally2"
    /\ UNCHANGED <<worker_id, running, heartbeat_running, queue_names, job_id,
                   job_info, result, hbPc, child, orphans, device, queues, results,
                   pushed, regResult, ops, popped, dropped, statusLog, lastStatus,
                   phaseLog, exitCause, interruptedJob, model_file, error, childStderr,
                   heartbeat_interval, heartbeat_thread, stale, hbTick, isConnected,
                   call, monitor>>

\* start_job_loop line 518: the finally block stops the heartbeat.
StopContinuousHeartbeat ==
    /\ pc = "finally"
    /\ stop_continuous_heartbeat
    /\ pc' = "finally2"
    /\ UNCHANGED <<worker_id, running, queue_names, job_id, job_info, result, child,
                   orphans, device, queues, results, pushed, regResult, ops, popped,
                   dropped, statusLog, lastStatus, phaseLog, exitCause, interruptedJob,
                   model_file, error, childStderr, isConnected, call, monitor>>

\* start_job_loop lines 519-520; main returns 0.
ClearRunning ==
    /\ pc = "finally2"
    /\ running' = FALSE
    /\ pc' = "returned"
    /\ UNCHANGED <<worker_id, heartbeat_running, queue_names, job_id, job_info, result,
                   hbPc, child, orphans, device, queues, results, pushed, regResult,
                   ops, popped, dropped, statusLog, lastStatus, phaseLog, exitCause,
                   interruptedJob, model_file, error, childStderr, heartbeat_interval,
                   heartbeat_thread, stale, hbTick, isConnected, call, monitor>>

\* KeyboardInterrupt raised in the main thread inside the try block
\* (start_job_loop lines 511-512).  It is no Exception, so the except block of
\* execute_benchmark_job does not catch it: a communicate() in progress is
\* abandoned.  A child that has exited is reaped; a running child either got
\* the signal too and dies, or lives on with nobody waiting for it.
Interrupt ==
    /\ pc \in TryPcs
    /\ LeaveTry("interrupt")
    /\ child' = NoChild
    /\ \E survives \in BOOLEAN :
         orphans' = IF child.st = "running" /\ survives
                    THEN orphans \cup {child.task} ELSE orphans
    /\ interruptedJob' = IF child.st = "running" THEN job_id ELSE interruptedJob
    /\ UNCHANGED <<worker_id, running, heartbeat_running, hbPc, device, queues,
                   results, pushed, regResult, ops, popped, dropped, lastStatus,
                   model_file, heartbeat_interval, heartbeat_thread, stale, hbTick,
                   isConnected, call, monitor>>

\* KeyboardInterrupt raised inside start_job_loop but outside its try block:
\* it reaches main lines 553-554, which log and return 0.
InterruptOutsideTry ==
    /\ pc \in OutsideTryPcs
    /\ pc' = "aborted"
    /\ UNCHANGED <<worker_id, running, heartbeat_running, queue_names, job_id,
                   job_info, result, hbPc, child, orphans, device, queues, results,
                   pushed, regResult, ops, popped, dropped, statusLog, lastStatus,
                   phaseLog, exitCause, interruptedJob, model_file, error, childStderr,
                   heartbeat_interval, heartbeat_thread, stale, hbTick, isConnected,
                   call, monitor>>

\* ---------------------------------------------------------------- heartbeat thread

\* _heartbeat_loop lines 123-130, with the heartbeat held back while the
\* supervisor waits for a child.
HbCheckBlockedByWait ==
    /\ hbPc = "check"
    /\ child.st = "none"
    /\ IF heartbeat_running
       THEN /\ hbPc' = "post"
            /\ hbTick' = [hbTick EXCEPT !.posts = @ + 1]
            /\ ops' = ops \cup {Op("heartbeat")}
       ELSE /\ hbPc' = "done"
            /\ UNCHANGED <<ops, hbTick>>
    /\ UNCHANGED <<pc, worker_id, running, heartbeat_running, queue_names, job_id,
                   job_info, result, child, orphans, device, queues, results, pushed,
                   regResult, popped, dropped, statusLog, lastStatus, phaseLog,
                   exitCause, interruptedJob, model_file, error, childStderr,
                   heartbeat_interval, heartbeat_thread, stale, isConnected, call,
                   monitor>>

\* _heartbeat_loop lines 123-130: the while test; the POST is sent.
HbCheck ==
    /\ hbPc = "check"
    /\ IF heartbeat_running
       THEN /\ hbPc' = "post"
            /\ hbTick' = [hbTick EXCEPT !.posts = @ + 1]
            /\ ops' = ops \cup {Op("heartbeat")}
       ELSE /\ hbPc' = "done"
            /\ UNCHANGED <<ops, hbTick>>
    /\ UNCHANGED <<pc, worker_id, running, heartbeat_running, queue_names, job_id,
                   job_info, result, child, orphans, device, queues, results, pushed,
                   regResult, popped, dropped, statusLog, lastStatus, phaseLog,
                   exitCause, interruptedJob, model_file, error, childStderr,
                   heartbeat_interval, heartbeat_thread, stale, isConnected, call,
                   monitor>>

\* What a heartbeat request may end in: a 200 reply, or a failure (a non-200
\* reply, a timeout, any other exception).
HbReplies == {"ok", "fail"}

\* _heartbeat_loop lines 132-142 with a failed request sent again at once.
HbReplyRetries ==
    /\ hbPc = "post"
    /\ \E r \in HbReplies :
         /\ hbTick' = [hbTick EXCEPT !.reply = r]
         /\ hbPc' = IF r = "fail" THEN "check" ELSE "sleep"
    /\ UNCHANGED <<pc, worker_id, running, heartbeat_running, queue_names, job_id,
                   job_info, result, child, orphans, device, queues, results, pushed,
                   regResult, ops, popped, dropped, statusLog, lastStatus, phaseLog,
                   exitCause, interruptedJob, model_file, error, childStderr,
                   heartbeat_interval, heartbeat_thread, stale, isConnected, call,
                   monitor>>

\* _heartbeat_loop lines 132-142: a 200, a non-200, a timeout or any other
\* exception; each is logged and the loop goes on to sleep.
HbReply ==
    /\ hbPc = "post"
    /\ \E r \in HbReplies : hbTick' = [hbTick EXCEPT !.reply = r]
    /\ hbPc' = "sleep"
    /\ UNCHANGED <<pc, worker_id, running, heartbeat_running, queue_names, job_id,
                   job_info, result, child, orphans, device, queues, results, pushed,
                   regResult, ops, popped, dropped, statusLog, lastStatus, phaseLog,
                   exitCause, interruptedJob, model_file, error, childStderr,
                   heartbeat_interval, heartbeat_thread, stale, isConnected, call,
                   monitor>>

\* _heartbeat_loop lines 144-148: the slices ran out, or the flag was seen
\* cleared and the for loop left; the iteration is over.
HbSleepEnd ==
    /\ hbPc = "sleep"
    /\ hbPc' = "check"
    /\ hbTick' = NoTick
    /\ UNCHANGED <<pc, worker_id, running, heartbeat_running, queue_names, job_id,
                   job_info, result, child, orphans, device, queues, results, pushed,
                   regResult, ops, popped, dropped, statusLog, lastStatus, phaseLog,
                   exitCause, interruptedJob, model_file, error, childStderr,
                   heartbeat_interval, heartbeat_thread, stale, isConnected, call,
                   monitor>>

HeartbeatThread == HbCheck \/ HbReply \/ HbSleepEnd

\* ---------------------------------------------------------------- measurement child

\* What run_job_task.main line 174 prints to stderr: the JSON object with the
\* error and the task (abridged) and print's newline.
ErrJson == <<"{","e","r","r","o","r","}","\n">>

\* What a child that exits non-zero may have written to stderr: main's JSON
\* line, or nothing when it was killed.
ChildErrors == {ErrJson, EmptyStr}

\* run_job_task.main lines 160-176: the child ends with exit code 0 and its
\* metrics on stdout, or with a non-zero code and the error on stderr.
\* "garbled" is exit code 0 with output that is no JSON object.
ChildExit ==
    /\ child.st = "running"
    /\ \/ \E st \in {"exit0", "garbled"} : child' = [child EXCEPT !.st = st]
       \/ \E err \in ChildErrors : child' = [child EXCEPT !.st = "exit1", !.err = err]
    /\ UNCHANGED <<pc, worker_id, running, heartbeat_running, queue_names, job_id,
                   job_info, result, hbPc, orphans, device, queues, results, pushed,
                   regResult, ops, popped, dropped, statusLog, lastStatus, phaseLog,
                   exitCause, interruptedJob, model_file, error, childStderr,
                   heartbeat_interval, heartbeat_thread, stale, hbTick, isConnected,
                   call, monitor>>

\* A child nobody waits for ends.
OrphanExit ==
    /\ \E t \in orphans : orphans' = orphans \ {t}
    /\ UNCHANGED <<pc, worker_id, running, heartbeat_running, queue_names, job_id,
                   job_info, result, hbPc, child, device, queues, results, pushed,
                   regResult, ops, popped, dropped, statusLog, lastStatus, phaseLog,
                   exitCause, interruptedJob, model_file, error, childStderr,
                   heartbeat_interval, heartbeat_thread, stale, hbTick, isConnected,
                   call, monitor>>

\* ---------------------------------------------------------------- orchestrator

\* The descriptors of the jobs the orchestrator queues: pinned to the
\* registered worker, or asking for a capability.
PushDescriptors(j) ==
    {[job_id |-> j, worker_id |-> worker_id]}
        \cup {[job_id |-> j, compute_unit |-> c] : c \in PushCaps}

RECURSIVE PushAll(_, _, _)
PushAll(qs, names, j) ==
    IF names = <<>> THEN qs
    ELSE PushAll([qs EXCEPT ![Head(names)] = Append(@, j)], Tail(names), j)

\* JobDispatcher.push_job_to_queues: the job id is appended to every queue
\* determine_queues names.  Pushes are taken while the supervisor is blocked
\* in the pop, the only place where the queues are read.
PushJobToQueues ==
    /\ pc = "pop"
    /\ pushed < MaxJobs
    /\ \E desc \in PushDescriptors(pushed + 1) :
         queues' = PushAll(queues, DetermineQueues(desc), desc.job_id)
    /\ pushed' = pushed + 1
    /\ UNCHANGED <<pc, worker_id, running, heartbeat_running, queue_names, job_id,
                   job_info, result, hbPc, child, orphans, device, results, regResult,
                   ops, popped, dropped, statusLog, lastStatus, phaseLog, exitCause,
                   interruptedJob, model_file, error, childStderr, heartbeat_interval,
                   heartbeat_thread, stale, hbTick, isConnected, call, monitor>>

\* ---------------------------------------------------------------- specification

Next ==
    \/ RegisterOk
    \/ RegisterFail
    \/ Precheck
    \/ StartContinuousHeartbeat
    \/ SetRunning
    \/ LoopTop
    \/ PopJob
    \/ PopNone
    \/ PopRaise
    \/ GetJobDetailsFail
    \/ GetJobDetailsOk
    \/ ExecEntry
    \/ UpdateBusy
    \/ DownloadOk
    \/ DownloadFail
    \/ SpawnLoad
    \/ SpawnLoadRaise
    \/ LoadReturn
    \/ SpawnInfer
    \/ SpawnInferRaise
    \/ InferReturn
    \/ Cleanup
    \/ CompleteActive
    \/ FailedActive
    \/ PublishOk
    \/ PublishFail
    \/ StopContinuousHeartbeat
    \/ ClearRunning
    \/ Interrupt
    \/ InterruptOutsideTry
    \/ HbCheck
    \/ HbReply
    \/ HbSleepEnd
    \/ ChildExit
    \/ OrphanExit
    \/ PushJobToQueues

Spec == Init /\ [][Next]_vars

\* The heartbeat thread is an operating-system thread of its own: it is
\* scheduled whenever it can run (communicate() and the blocking pop release
\* the interpreter lock).
FairSpec == Spec /\ WF_vars(HeartbeatThread)

\* ---------------------------------------------------------------- calls by a client

\* Number of calls a client makes in one behaviour.
MaxCalls == 3

\* The intervals a client passes to start_continuous_heartbeat (10 is the
\* default).
Intervals == {5, 10}

\* A WorkerAgent constructed and registered by a client that then calls its
\* methods itself, as cli.cmd_start does with stop_continuous_heartbeat.
ClientInit ==
    /\ pc = "client"
    /\ worker_id = W1
    /\ running = FALSE
    /\ heartbeat_running = FALSE
    /\ queue_names = <<>>
    /\ job_id = 0
    /\ job_info = NoInfo
    /\ result = NoResult
    /\ hbPc = "none"
    /\ child = NoChild
    /\ orphans = {}
    /\ device \in Devices
    /\ queues = [k \in QueueKeys |-> <<>>]
    /\ results = <<>>
    /\ pushed = 0
    /\ regResult = "ok"
    /\ ops = {}
    /\ popped = {}
    /\ dropped = {}
    /\ statusLog = <<>>
    /\ lastStatus = "none"
    /\ phaseLog = <<>>
    /\ exitCause = "none"
    /\ interruptedJob = 0
    /\ model_file = FALSE
    /\ error = NoneId
    /\ childStderr = NoneId
    /\ heartbeat_interval = 10
    /\ heartbeat_thread = 0
    /\ stale = <<>>
    /\ hbTick = NoTick
    /\ isConnected = "unasked"
    /\ call = NoCall
    /\ monitor = NoMonitor

\* The client calls start_continuous_heartbeat(interval).
CallStart ==
    /\ pc = "client"
    /\ call.n < MaxCalls
    /\ \E interval \in Intervals :
         /\ start_continuous_heartbeat(interval)
         /\ call' = [op |-> "start", n |-> call.n + 1, arg |-> interval, ret |-> <<>>]
    /\ UNCHANGED <<pc, worker_id, running, queue_names, job_id, job_info, result,
                   child, orphans, device, queues, results, pushed, regResult, ops,
                   popped, dropped, statusLog, lastStatus, phaseLog, exitCause,
                   interruptedJob, model_file, error, childStderr, isConnected,
                   monitor>>

\* The client calls stop_continuous_heartbeat().
CallStop ==
    /\ pc = "client"
    /\ call.n < MaxCalls
    /\ stop_continuous_heartbeat
    /\ call' = [op |-> "stop", n |-> call.n + 1, arg |-> 0, ret |-> <<>>]
    /\ UNCHANGED <<pc, worker_id, running, queue_names, job_id, job_info, result,
                   child, orphans, device, queues, results, pushed, regResult, ops,
                   popped, dropped, statusLog, lastStatus, phaseLog, exitCause,
                   interruptedJob, model_file, error, childStderr, isConnected,
                   monitor>>

\* The sequence s without its i-th element.
RemoveAt(s, i) == SubSeq(s, 1, i - 1) \o SubSeq(s, i + 1, Len(s))

\* _heartbeat_loop run by a thread heartbeat_thread no longer refers to: it
\* reads the same heartbeat_running flag as the current thread.
StaleThread ==
    /\ \E i \in 1..Len(stale) :
         \/ /\ stale[i] = "check"
            /\ heartbeat_running
            /\ stale' = [stale EXCEPT ![i] = "post"]
            /\ ops' = ops \cup {Op("heartbeat")}
         \/ /\ stale[i] = "check"
            /\ ~heartbeat_running
            /\ stale' = RemoveAt(stale, i)
            /\ UNCHANGED ops
         \/ /\ stale[i] = "post"
            /\ stale' = [stale EXCEPT ![i] = "sleep"]
            /\ UNCHANGED ops
         \/ /\ stale[i] = "sleep"
            /\ stale' = [stale EXCEPT ![i] = "check"]
            /\ UNCHANGED ops
    /\ UNCHANGED <<pc, worker_id, running, heartbeat_running, queue_names, job_id,
                   job_info, result, hbPc, child, orphans, device, queues, results,
                   pushed, regResult, popped, dropped, statusLog, lastStatus, phaseLog,
                   exitCause, interruptedJob, model_file, error, childStderr,
                   heartbeat_interval, heartbeat_thread, hbTick, isConnected, call,
                   monitor>>

HeartbeatApiNext ==
    \/ CallStart
    \/ CallStop
    \/ HbCheck
    \/ HbReply
    \/ HbSleepEnd
    \/ StaleThread

\* A client calling the two heartbeat methods in any order, with the
\* heartbeat threads running beside it.
HeartbeatApiSpec == ClientInit /\ [][HeartbeatApiNext]_vars

\* The values a key of a job descriptor may have: a string, the empty string
\* or None; the key may also be absent.
RoutingWorkerIds == {NoneId, EmptyStr, W1, <<"W","2">>}

RoutingComputeUnits ==
    {NoneId, EmptyStr, CPU_ONNX, GPU_ONNX, DirectML_ONNX, OpenVINO_ONNX, GPU_CoreML,
     NeuralEngine_CoreML, CPU_Bare}

\* The job descriptors determine_queues is applied to.
RoutingJobs ==
    {[job_id |-> 1]}
        \cup {[job_id |-> 1, worker_id |-> w] : w \in RoutingWorkerIds}
        \cup {[job_id |-> 1, compute_unit |-> c] : c \in RoutingComputeUnits}
        \cup {[job_id |-> 1, worker_id |-> w, compute_unit |-> c] :
                w \in RoutingWorkerIds, c \in RoutingComputeUnits}

\* The client calls determine_queues(job_info).
CallDetermineQueues ==
    /\ pc = "client"
    /\ call.n < MaxCalls
    /\ \E info \in RoutingJobs :
         call' = [op |-> "determine_queues", n |-> call.n + 1, arg |-> info,
                  ret |-> DetermineQueues(info)]
    /\ UNCHANGED <<pc, worker_id, running, heartbeat_running, queue_names, job_id,
                   job_info, result, hbPc, child, orphans, device, queues, results,
                   pushed, regResult, ops, popped, dropped, statusLog, lastStatus,
                   phaseLog, exitCause, interruptedJob, model_file, error, childStderr,
                   heartbeat_interval, heartbeat_thread, stale, hbTick, isConnected,
                   monitor>>

RoutingNext == CallDetermineQueues

\* A client applying the routing policy to job descriptors.
RoutingSpec == ClientInit /\ [][RoutingNext]_vars

\* ---------------------------------------------------------------- properties

\* How many records of the results list carry job id j.
ResultCount(j) == Cardinality({i \in 1..Len(results) : results[i].job_id = j})

\* The supervisor positions at which a popped job is being handled.
JobPcs == {"details", "publish"} \cup ExecPcs

\* The handling of popped job j is over: the supervisor is past it.
Handled(j) == j \in popped /\ (job_id # j \/ pc \notin JobPcs)

\* A measurement child is running and the supervisor is blocked in
\* communicate() on it.
SupervisorWaiting == pc \in {"load_wait", "infer_wait"} /\ child.st = "running"

\* C1: for every job id popped from a job queue, exactly one result record
\* (Complete or Failed) is in the results list once its handling is over, on
\* every path, and never more than one.
C1_ExactlyOneResultPerPoppedJob ==
    /\ \A j \in popped : ResultCount(j) <= 1 /\ (Handled(j) => ResultCount(j) = 1)
    /\ \A i \in 1..Len(results) :
         results[i].status \in {RESULT_STATUS_COMPLETE, RESULT_STATUS_FAILED}

\* C2: a keyboard interrupt that arrives while a measurement child is running
\* does not preempt the measurement: once the supervisor has left the job
\* loop, the result of the interrupted job is in the results list.
C2_InterruptedMeasurementIsPublished ==
    (interruptedJob # 0 /\ pc \in {"finally", "finally2", "returned", "aborted"})
        => \E i \in 1..Len(results) : results[i].job_id = interruptedJob

C4_DetailsFailureDropsId ==
    /\ [](\A j \in dropped : ResultCount(j) = 0)
    /\ [](pc = "loop" => running)
    /\ [][dropped' # dropped =>
            /\ pc' = "loop"
            /\ results' = results
            /\ ops' = ops
            /\ statusLog' = statusLog
            /\ lastStatus' = lastStatus
            /\ child' = child
            /\ orphans' = orphans]_vars

\* C4 witness: an id was dropped and the supervisor is blocked in the next pop.
C4_Witness == dropped # {} /\ pc = "pop" /\ results = <<>>

\* C5: no error that arises while handling a popped job ends the job loop;
\* the loop is left only on an interrupt or a queue error.
C5_JobErrorNeverEndsLoop == exitCause \in {"none", "interrupt", "queue_error"}

\* C6: every queue pop, heartbeat, status update and result push is issued
\* with the worker_id a successful registration set, and the heartbeat thread
\* exists only then; without a successful registration none is issued.
C6_WorkerIdSetBeforeOps ==
    /\ \A o \in ops : Truthy(o.worker_id) /\ o.worker_id = worker_id
    /\ (ops # {} \/ hbPc # "none") => (regResult = "ok" /\ Truthy(worker_id))

\* C6 witness: all four kinds of operation have been issued.
C6_Witness == {o.kind : o \in ops} = {"pop", "heartbeat", "status", "result"}

\* C7: while the supervisor is blocked on a running measurement child the
\* ticker is on and its thread alive and able to step, and under fair
\* scheduling of the heartbeat thread a heartbeat request is issued again and
\* again for as long as the wait lasts.
C7_HeartbeatDuringMeasurement ==
    /\ [](SupervisorWaiting =>
            /\ heartbeat_running
            /\ hbPc \in {"check", "post", "sleep"}
            /\ ENABLED HeartbeatThread)
    /\ ((SupervisorWaiting /\ hbPc # "post") ~> (hbPc = "post" \/ ~SupervisorWaiting))

\* C7 witness: a heartbeat request is in flight while the supervisor waits
\* for the running infer child.
C7_Witness == SupervisorWaiting /\ child.task = "infer" /\ hbPc = "post"

\* The worker's personal queue key, jobs:<worker_id>.
PersonalKey == JobsPrefix \o worker_id

\* The queue key of the device's i-th capability.
CapabilityKey(i) == CapabilityPrefix \o Normalise(GetComputeUnits(device)[i])

\* C8: the queue list handed to pop_job starts with jobs:<worker_id>; the
\* job a pop takes is the head of the personal queue whenever that queue is
\* not empty, and otherwise the head of the earliest non-empty capability
\* queue in the order of the device's capabilities.
C8_PersonalQueueFirst ==
    /\ [](pc = "pop" => queue_names[1] = PersonalKey)
    /\ [][(pc = "pop" /\ pc' = "details") =>
            /\ Queue(PersonalKey) # <<>> =>
                 /\ job_id' = Head(Queue(PersonalKey))
                 /\ queues'[PersonalKey] = Tail(Queue(PersonalKey))
            /\ Queue(PersonalKey) = <<>> =>
                 \E i \in 1..Len(GetComputeUnits(device)) :
                    /\ Queue(CapabilityKey(i)) # <<>>
                    /\ \A h \in 1..(i - 1) : Queue(CapabilityKey(h)) = <<>>
                    /\ job_id' = Head(Queue(CapabilityKey(i)))]_vars

\* C8 witness: job 2 was taken from the personal queue while job 1, pushed
\* before it, still sits in a capability queue the worker listens to.
C8_Witness ==
    /\ pc = "details"
    /\ job_id = 2
    /\ Queue(CapabilityPrefix \o Normalise(CPU_ONNX)) = <<1>>

\* The phase events that may follow one another within one job.
PhaseOrder ==
    { <<"download", "load_spawn">>, <<"load_spawn", "load_exit">>,
      <<"load_exit", "infer_spawn">>, <<"infer_spawn", "infer_exit">>,
      <<"download", "publish">>, <<"load_exit", "publish">>,
      <<"infer_exit", "publish">> }

\* C9: within one job the phases happen in the order download, load
\* measurement, infer measurement, publish: each phase event follows its
\* predecessor, a child the supervisor holds is the one last spawned and no
\* later event has happened while it is there.
C9_PhasesSequential ==
    /\ phaseLog # <<>> => phaseLog[1] = "download"
    /\ \A i \in 2..Len(phaseLog) : <<phaseLog[i - 1], phaseLog[i]>> \in PhaseOrder
    /\ child.task # "none" => phaseLog[Len(phaseLog)] = SpawnEvent(child.task)

\* C9 witness: a job went through all phases and was published.
C9_Witness ==
    phaseLog = <<"download", "load_spawn", "load_exit", "infer_spawn", "infer_exit", "publish">>

\* The measurement children of the agent that are running.
RunningChildren == (IF child.st = "running" THEN 1 ELSE 0) + Cardinality(orphans)

\* C10: at most one measurement child of the agent exists at any time, and
\* whenever one exists the supervisor is inside execute_benchmark_job, blocked
\* waiting on it.
C10_OneChildSupervisorBlocked ==
    /\ RunningChildren <= 1
    /\ RunningChildren = 1 => SupervisorWaiting

\* C11: when a measurement child has exited non-zero, the record returned
\* for the job has status Failed and its remark is equal to the text the child
\* wrote to stderr; the results list never holds more than one record of a job.
C11_CrashRemarkIsStderr ==
    /\ (pc = "publish" /\ childStderr # NoneId) =>
         /\ result.status = RESULT_STATUS_FAILED
         /\ result.remark = childStderr
    /\ \A j \in popped : ResultCount(j) <= 1

\* os.remove failed in the cleanup of a job whose phases all succeeded: no
\* exception was caught and the file is still there.
CleanupRaised == pc \in {"ok_active", "publish"} /\ error = NoneId /\ model_file

\* The record is a Failed record with a remark, the job's compute unit, the
\* device descriptor and no benchmark metric.
FailedShape(r) ==
    /\ r.status = RESULT_STATUS_FAILED
    /\ r.remark # NoneId
    /\ r.ComputeUnits = Get(job_info, "compute_unit")
    /\ DeviceKeys \subseteq r.device
    /\ r.metrics \cap MetricKeys = {}

\* C12 as stated: whenever download, load measurement, infer measurement or
\* cleanup raised inside execute_benchmark_job, the returned record is a Failed
\* record with a remark, the compute unit, the device descriptor and no metric.
C12_AnyRaiseGivesFailedRecord ==
    (pc = "publish" /\ (error # NoneId \/ CleanupRaised)) => FailedShape(result)

\* C12 amended: whenever download, load measurement or infer measurement
\* raised, the returned record is a Failed record with the exception text as
\* remark, the compute unit, the device descriptor and no metric, also when
\* the load phase had succeeded; a cleanup error is only logged and the record
\* is Complete with all its metrics.  Every Failed record pushed is of that
\* shape.
C12_RaiseGivesFailedRecord ==
    /\ (pc = "publish" /\ error # NoneId) =>
         /\ FailedShape(result)
         /\ result.remark = error
    /\ (pc = "publish" /\ CleanupRaised) =>
         /\ result.status = RESULT_STATUS_COMPLETE
         /\ result.metrics = MetricKeys
    /\ \A i \in 1..Len(results) :
         results[i].status = RESULT_STATUS_FAILED =>
            /\ results[i].metrics = {}
            /\ results[i].remark # NoneId
            /\ DeviceKeys \subseteq results[i].device

\* C12 witness: the infer phase failed after the load phase had succeeded, and
\* the Failed record carries no metric.
C12_Witness ==
    /\ pc = "publish"
    /\ result.status = RESULT_STATUS_FAILED
    /\ \E i \in 1..Len(phaseLog) : phaseLog[i] = "infer_exit"
    /\ result.metrics = {}

\* C13: when the model download fails no measurement child is spawned, the
\* record returned is Failed with the download error as remark, and the status
\* sent last is active.
C13_DownloadFailure ==
    /\ error = DownloadError =>
         /\ pc \in {"fail_active", "publish", "loop"}
         /\ child = NoChild
         /\ \A i \in 1..Len(phaseLog) : phaseLog[i] \notin {"load_spawn", "infer_spawn"}
    /\ (pc = "publish" /\ error = DownloadError) =>
         /\ result.status = RESULT_STATUS_FAILED
         /\ result.remark = DownloadError
         /\ statusLog = <<WORKER_STATUS_BUSY, WORKER_STATUS_ACTIVE>>
         /\ lastStatus = WORKER_STATUS_ACTIVE

\* C13 witness: the Failed record of a failed download has been returned.
C13_Witness ==
    /\ pc = "publish"
    /\ error = DownloadError
    /\ result.remark = DownloadError
    /\ lastStatus = WORKER_STATUS_ACTIVE

\* C14: once execute_benchmark_job has returned, Complete or Failed, the
\* model file downloaded for the job is no longer there.
C14_ModelFileDeletedAtJobEnd == pc = "publish" => ~model_file

\* C15: in every reachable state, running implies that the heartbeat ticker
\* is on.
C15_RunningImpliesHeartbeat == running => heartbeat_running

\* C16: the heartbeat thread is started before the first pop and the ticker
\* stays on while the supervisor is in the try block; when start_job_loop
\* returns after having passed its precondition, the ticker is off.
C16_HeartbeatStartedAndStopped ==
    /\ pc \in TryPcs =>
         /\ heartbeat_running
         /\ heartbeat_thread # 0
         /\ hbPc \in {"check", "post", "sleep"}
    /\ (\E o \in ops : o.kind = "pop") => heartbeat_thread # 0
    /\ (pc = "returned" /\ isConnected = "yes") => ~heartbeat_running

\* C16 witness: start_job_loop has returned after an interrupt that ended a
\* loop in which a job had been popped.
C16_Witness ==
    /\ pc = "returned"
    /\ isConnected = "yes"
    /\ exitCause = "interrupt"
    /\ popped # {}
    /\ ~heartbeat_running

\* What the two heartbeat methods can change.
tickerVars == <<heartbeat_running, heartbeat_interval, heartbeat_thread, hbPc, stale, hbTick>>

\* C17: a call of stop_continuous_heartbeat made while the ticker is off
\* changes nothing, and a call of start_continuous_heartbeat made while the
\* ticker is on creates no thread and leaves heartbeat_interval, the flag and
\* the running thread as they are.
C17_StopIdempotentDoubleStartNoOp ==
    /\ [][(call'.n # call.n /\ call'.op = "stop" /\ ~heartbeat_running)
            => UNCHANGED <<tickerVars, ops, running>>]_vars
    /\ [][(call'.n # call.n /\ call'.op = "start" /\ heartbeat_running)
            => UNCHANGED <<tickerVars, ops, running>>]_vars
    /\ [](heartbeat_thread <= call.n)

\* C17 witness: start was called with interval 5 while the ticker started
\* with interval 10 was on, and one thread exists.
C17_Witness ==
    /\ call.op = "start"
    /\ call.arg = 5
    /\ heartbeat_running
    /\ heartbeat_interval = 10
    /\ heartbeat_thread = 1
    /\ stale = <<>>

\* C18: whatever the reply to a heartbeat request, a failure included, the
\* heartbeat loop goes on to its sleep and the step changes nothing of the
\* supervisor, the child or the broker; every iteration issues exactly one
\* request; and after a failed request the next one is issued unless the
\* ticker has been stopped.
C18_HeartbeatFailureKeepsTicking ==
    /\ [][(hbPc = "post" /\ hbPc' # "post")
            => /\ hbPc' = "sleep"
               /\ UNCHANGED <<supVars, heartbeat_running, child, queues, results>>]_vars
    /\ [](hbTick.posts <= 1)
    /\ [](hbPc \in {"post", "sleep"} => hbTick.posts = 1)
    /\ ((hbPc = "sleep" /\ hbTick.reply = "fail") ~> (hbPc = "post" \/ ~heartbeat_running))

\* C18 witness: a heartbeat request failed while the supervisor waits for
\* the load child, and the heartbeat loop is in its sleep with the ticker on.
C18_Witness ==
    /\ hbPc = "sleep"
    /\ hbTick.reply = "fail"
    /\ heartbeat_running
    /\ SupervisorWaiting

\* C19: start_job_loop goes on to start the heartbeat only when the worker
\* is registered and the broker answered connected; when it returns from its
\* precondition it has started no heartbeat, issued no operation, popped
\* nothing and not set running.
C19_PreconditionFailureReturns ==
    /\ [][(pc = "precheck" /\ pc' = "hb_start")
            => (Truthy(worker_id) /\ isConnected' = "yes")]_vars
    /\ [][(pc = "precheck" /\ pc' = "returned")
            => UNCHANGED <<running, tickerVars, ops, popped, queues>>]_vars
    /\ []((pc = "returned" /\ isConnected # "yes") =>
            /\ ~running
            /\ ~heartbeat_running
            /\ hbPc = "none"
            /\ heartbeat_thread = 0
            /\ ops = {}
            /\ popped = {})

\* C19 witness: start_job_loop has returned because the broker was not
\* connected.
C19_Witness == pc = "returned" /\ Truthy(worker_id) /\ isConnected = "no"

\* jobs:W1
Key_W1 == <<"j","o","b","s",":","W","1">>

\* jobs:capability:cpu_onnx
Key_cpu_onnx ==
    <<"j","o","b","s",":","c","a","p","a","b","i","l","i","t","y",":","c","p","u","_","o","n","n","x">>

\* jobs:capability:neural_engine_coreml
Key_neural_engine_coreml ==
    <<"j","o","b","s",":","c","a","p","a","b","i","l","i","t","y",":",
      "n","e","u","r","a","l","_","e","n","g","i","n","e","_","c","o","r","e","m","l">>

\* jobs:capability:gpu_coreml
Key_gpu_coreml ==
    <<"j","o","b","s",":","c","a","p","a","b","i","l","i","t","y",":","g","p","u","_","c","o","r","e","m","l">>

\* The key of a descriptor holds a string (not None, not the empty string).
IsSet(info, k) == k \in DOMAIN info /\ info[k] # NoneId /\ info[k] # EmptyStr

\* C20: for every job descriptor determine_queues returns [jobs:<worker_id>]
\* when worker_id is set, whatever compute_unit is; exactly one key
\* jobs:capability:<normalised compute_unit> when only compute_unit is set,
\* with the keys of the three named compute units spelled out; and the empty
\* list when neither is set.
C20_DetermineQueues ==
    call.op = "determine_queues" =>
        /\ IsSet(call.arg, "worker_id") =>
             /\ call.ret = <<JobsPrefix \o call.arg["worker_id"]>>
             /\ call.arg["worker_id"] = W1 => call.ret = <<Key_W1>>
        /\ (~IsSet(call.arg, "worker_id") /\ IsSet(call.arg, "compute_unit")) =>
             /\ Len(call.ret) = 1
             /\ SubSeq(call.ret[1], 1, Len(CapabilityPrefix)) = CapabilityPrefix
             /\ \A i \in 1..Len(call.ret[1]) : call.ret[1][i] \notin {" ", "(", ")"}
             /\ call.arg["compute_unit"] = CPU_ONNX => call.ret = <<Key_cpu_onnx>>
             /\ call.arg["compute_unit"] = NeuralEngine_CoreML =>
                  call.ret = <<Key_neural_engine_coreml>>
             /\ call.arg["compute_unit"] = GPU_CoreML => call.ret = <<Key_gpu_coreml>>
        /\ (~IsSet(call.arg, "worker_id") /\ ~IsSet(call.arg, "compute_unit")) =>
             call.ret = <<>>

\* C20 witness: a descriptor with worker_id W1 and compute_unit Neural Engine
\* (CoreML) was routed to jobs:W1 alone.
C20_Witness ==
    /\ call.op = "determine_queues"
    /\ IsSet(call.arg, "worker_id")
    /\ IsSet(call.arg, "compute_unit")
    /\ call.arg["compute_unit"] = NeuralEngine_CoreML
    /\ call.ret = <<Key_W1>>

\* ---------------------------------------------------------------- library calls

\* Longest capability list a client passes to get_worker_queue_priority.
MaxCapLen == 2

cpu_onnx == <<"c","p","u","_","o","n","n","x">>

\* Capability strings a caller may list: strings the device probe emits and
\* one that is already in normalised form.
PriorityCaps == {CPU_ONNX, GPU_CoreML, NeuralEngine_CoreML, cpu_onnx}

\* The capability lists of at most n elements.
RECURSIVE CapLists(_)
CapLists(n) ==
    IF n = 0 THEN {<<>>}
    ELSE CapLists(n - 1)
            \cup {Append(l, c) : l \in {x \in CapLists(n - 1) : Len(x) = n - 1},
                                 c \in PriorityCaps}

PriorityWorkerIds == {W1, <<"W","2">>}

\* The client calls JobDispatcher.get_worker_queue_priority(worker_id, capabilities).
CallGetWorkerQueuePriority ==
    /\ pc = "client"
    /\ call.n = 0
    /\ \E w \in PriorityWorkerIds, caps \in CapLists(MaxCapLen) :
         call' = [op |-> "get_worker_queue_priority", n |-> call.n + 1,
                  arg |-> [worker_id |-> w, capabilities |-> caps],
                  ret |-> GetWorkerQueuePriority(w, caps)]
    /\ UNCHANGED <<pc, worker_id, running, heartbeat_running, queue_names, job_id,
                   job_info, result, hbPc, child, orphans, device, queues, results,
                   pushed, regResult, ops, popped, dropped, statusLog, lastStatus,
                   phaseLog, exitCause, interruptedJob, model_file, error, childStderr,
                   heartbeat_interval, heartbeat_thread, stale, hbTick, isConnected,
                   monitor>>

\* x is an element of the sequence s.
InSeq(x, s) == \E i \in 1..Len(s) : s[i] = x

\* The elements of s in the order of their first occurrence.
RECURSIVE FirstSeen(_)
FirstSeen(s) ==
    IF s = <<>> THEN <<>>
    ELSE LET init == FirstSeen(SubSeq(s, 1, Len(s) - 1))
         IN  IF InSeq(s[Len(s)], init) THEN init ELSE Append(init, s[Len(s)])

\* C21: for every worker id and capability list, get_worker_queue_priority
\* returns a list that starts with jobs:<worker_id>, holds no queue key
\* twice, and whose capability queues are the normalised capabilities in
\* the order of their first occurrence.
C21_PriorityListHasNoDuplicates ==
    call.op = "get_worker_queue_priority" =>
        LET w == call.arg.worker_id
            caps == call.arg.capabilities
            keys == [i \in 1..Len(caps) |-> CapabilityPrefix \o Normalise(caps[i])]
        IN  /\ call.ret[1] = JobsPrefix \o w
            /\ \A i, j \in 1..Len(call.ret) : i # j => call.ret[i] # call.ret[j]
            /\ Tail(call.ret) = FirstSeen(keys)

\* The providers onnxruntime may advertise.
AllProviders ==
    {"CPUExecutionProvider", "CUDAExecutionProvider", "DmlExecutionProvider",
     "OpenVINOExecutionProvider"}

\* Every outcome of the facts get_compute_units probes.
Probes ==
    [ort : BOOLEAN, providers : SUBSET AllProviders, system : {"Linux", "Darwin", "Windows"},
     coreml : BOOLEAN, apple : BOOLEAN]

\* The capability strings get_compute_units can emit on some machine.
EmittedCaps ==
    UNION {{GetComputeUnits(d)[i] : i \in 1..Len(GetComputeUnits(d))} : d \in Probes}

\* The client normalises a capability string the device probe emitted.
CallNormalise ==
    /\ pc = "client"
    /\ call.n = 0
    /\ \E c \in EmittedCaps :
         call' = [op |-> "normalise", n |-> call.n + 1, arg |-> c, ret |-> Normalise(c)]
    /\ UNCHANGED <<pc, worker_id, running, heartbeat_running, queue_names, job_id,
                   job_info, result, hbPc, child, orphans, device, queues, results,
                   pushed, regResult, ops, popped, dropped, statusLog, lastStatus,
                   phaseLog, exitCause, interruptedJob, model_file, error, childStderr,
                   heartbeat_interval, heartbeat_thread, stale, hbTick, isConnected,
                   monitor>>

\* C22: for every capability string the device probe can emit, normalising
\* gives a key (total), normalising the key again changes nothing
\* (idempotent), and no other emitted string has the same key (injective).
C22_NormaliseIdempotentInjective ==
    call.op = "normalise" =>
        /\ call.arg \in EmittedCaps
        /\ Len(call.ret) > 0
        /\ \A i \in 1..Len(call.ret) :
             call.ret[i] \notin {" ", "(", ")"} /\ LowerChar(call.ret[i]) = call.ret[i]
        /\ Normalise(call.ret) = call.ret
        /\ \A d \in EmittedCaps : d # call.arg => Normalise(d) # call.ret

\* C22 witness: Neural Engine (CoreML), which has an upper-case letter, two
\* spaces and parentheses, was normalised, and the bare CPU and CPU (ONNX)
\* are both among the emitted strings.
C22_Witness ==
    /\ call.op = "normalise"
    /\ call.arg = NeuralEngine_CoreML
    /\ call.ret # call.arg
    /\ {CPU_Bare, CPU_ONNX} \subseteq EmittedCaps
    /\ Cardinality(EmittedCaps) = 7

\* str.startswith
StartsWith(s, prefix) == Len(s) >= Len(prefix) /\ SubSeq(s, 1, Len(prefix)) = prefix

\* ONNXEngine._get_providers for an engine built with compute_unit, when
\* onnxruntime advertises the providers in available.
GetProviders(compute_unit, available) ==
    LET providers ==
            IF compute_unit = <<"C","P","U">> THEN <<"CPUExecutionProvider">>
            ELSE IF compute_unit = <<"C","U","D","A">>
                 THEN <<"CUDAExecutionProvider", "CPUExecutionProvider">>
            ELSE IF compute_unit = <<"D","M","L">>
                 THEN <<"DmlExecutionProvider", "CPUExecutionProvider">>
            ELSE IF StartsWith(compute_unit, <<"O","p","e","n","V","I","N","O">>)
                 THEN <<"OpenVINOExecutionProvider", "CPUExecutionProvider">>
            ELSE <<"CPUExecutionProvider">>
        Advertised(p) == p \in available
    IN  SelectSeq(providers, Advertised)

\* The compute units of the jobs whose provider list is computed: the ONNX
\* capabilities the device probe emits, the same units without the engine,
\* and the names _get_providers compares with.
ProviderUnits ==
    {CPU_ONNX, GPU_ONNX, DirectML_ONNX, OpenVINO_ONNX, CPU_Bare, <<"G","P","U">>,
     <<"D","i","r","e","c","t","M","L">>, <<"O","p","e","n","V","I","N","O">>,
     <<"C","U","D","A">>, <<"D","M","L">>}

ProviderJobs ==
    {[job_id |-> 1]} \cup {[job_id |-> 1, compute_unit |-> c] : c \in ProviderUnits}

\* The measurement child of a job builds its ONNX engine: the supervisor
\* passes ComputeUnit(job_info) as --compute-unit (worker_agent.py 370-374),
\* run_job_task hands it to ModelLoader.load_model, which constructs
\* ONNXEngine(compute_unit=compute_unit) (model_loader.py 95-96).
CallGetProviders ==
    /\ pc = "client"
    /\ call.n = 0
    /\ \E info \in ProviderJobs, available \in SUBSET AllProviders :
         call' = [op |-> "get_providers", n |-> call.n + 1,
                  arg |-> [compute_unit |-> ComputeUnit(info), available |-> available],
                  ret |-> GetProviders(ComputeUnit(info), available)]
    /\ UNCHANGED <<pc, worker_id, running, heartbeat_running, queue_names, job_id,
                   job_info, result, hbPc, child, orphans, device, queues, results,
                   pushed, regResult, ops, popped, dropped, statusLog, lastStatus,
                   phaseLog, exitCause, interruptedJob, model_file, error, childStderr,
                   heartbeat_interval, heartbeat_thread, stale, hbTick, isConnected,
                   monitor>>

\* The compute unit of a capability string: the text before " (".
UnitOf(c) ==
    LET spaces == {i \in 1..Len(c) : c[i] = " "}
    IN  IF spaces = {} THEN c
        ELSE SubSeq(c, 1, (CHOOSE i \in spaces : \A j \in spaces : i <= j) - 1)

\* The provider list the ONNX engine is to use for a compute unit.
PreferredProviders(unit) ==
    IF unit = <<"G","P","U">> THEN <<"CUDAExecutionProvider", "CPUExecutionProvider">>
    ELSE IF unit = <<"D","i","r","e","c","t","M","L">>
         THEN <<"DmlExecutionProvider", "CPUExecutionProvider">>
    ELSE IF unit = <<"O","p","e","n","V","I","N","O">>
         THEN <<"OpenVINOExecutionProvider", "CPUExecutionProvider">>
    ELSE <<"CPUExecutionProvider">>

\* C23: for the compute unit of a job as it reaches the ONNX engine, the
\* provider list is [CPU] for CPU, [CUDA, CPU] for GPU, [DML, CPU] for
\* DirectML and [OpenVINO, CPU] for OpenVINO, restricted to the advertised
\* providers with the order kept.
C23_OnnxProviderList ==
    (/\ call.op = "get_providers"
     /\ UnitOf(call.arg.compute_unit)
          \in {<<"C","P","U">>, <<"G","P","U">>, <<"D","i","r","e","c","t","M","L">>,
               <<"O","p","e","n","V","I","N","O">>})
        => LET Advertised(p) == p \in call.arg.available
           IN  call.ret = SelectSeq(PreferredProviders(UnitOf(call.arg.compute_unit)), Advertised)

\* ---------------------------------------------------------------- model loader

Ext_onnx == <<".","o","n","n","x">>

Ext_mlmodel == <<".","m","l","m","o","d","e","l">>

\* ModelLoader.ENGINES in dict order, with each engine's name and
\* supported_formats.
ENGINES ==
    <<[name |-> "ONNX", supported_formats |-> {Ext_onnx}],
      [name |-> "CoreML", supported_formats |-> {Ext_mlmodel}]>>

\* The largest index of character c in p (0: none), str.rfind + 1.
RFind(p, c) ==
    LET at == {i \in 1..Len(p) : p[i] = c}
    IN  IF at = {} THEN 0 ELSE CHOOSE i \in at : \A j \in at : j <= i

\* os.path.splitext(p)[1]: the text from the last dot of the last path
\* component, unless that component has only leading dots before it.
SplitExtExt(p) ==
    LET sepIndex == RFind(p, "/")
        dotIndex == RFind(p, ".")
    IN  IF dotIndex > sepIndex
           /\ \E k \in (sepIndex + 1)..(dotIndex - 1) : p[k] # "."
        THEN SubSeq(p, dotIndex, Len(p))
        ELSE <<>>

\* The machines a loader runs on: whether onnxruntime and coremltools
\* import, and platform.system().
LoaderHosts == [ort : BOOLEAN, ct : BOOLEAN, system : {"Linux", "Darwin"}]

\* ONNXEngine.is_available / CoreMLEngine.is_available
IsAvailable(name, host) ==
    IF name = "ONNX" THEN host.ort ELSE host.ct /\ host.system = "Darwin"

\* _get_engine_for_model that does not ask is_available.
GetEngineForModelAnyEngine(model_path, host) ==
    LET ext == StrLower(SplitExtExt(model_path))
        fits == {i \in 1..Len(ENGINES) : ext \in ENGINES[i].supported_formats}
    IN  IF fits = {} THEN "None"
        ELSE ENGINES[CHOOSE i \in fits : \A j \in fits : i <= j].name

\* The loop of _get_engine_for_model from registry index i on.
RECURSIVE EngineFrom(_, _, _)
EngineFrom(i, ext, host) ==
    IF i > Len(ENGINES) THEN "None"
    ELSE IF ext \in ENGINES[i].supported_formats /\ IsAvailable(ENGINES[i].name, host)
         THEN ENGINES[i].name
         ELSE EngineFrom(i + 1, ext, host)

\* ModelLoader._get_engine_for_model: the name of the class returned
\* ("None": no class).
GetEngineForModel(model_path, host) ==
    EngineFrom(1, StrLower(SplitExtExt(model_path)), host)

\* Local model paths.
ModelPaths ==
    { <<"m",".","o","n","n","x">>,
      <<"m",".","O","N","N","X">>,
      <<"m",".","m","l","m","o","d","e","l">>,
      <<"m",".","p","t">>,
      <<"m">>,
      <<".","o","n","n","x">>,
      <<"a",".","o","n","n","x","/","m">>,
      <<"m",".","o","n","n","x",".","b","a","k">> }

\* ModelLoader.load_model on a loader whose engine is engine ("None":
\* unset): what is raised ("none": nothing) and the loader's engine after
\* the call.  exists is os.path.exists(model_path); loads tells whether the
\* engine's own load_model succeeds.
LoadModel(engine, model_path, host, exists, loads) ==
    IF ~exists THEN [raised |-> "not_found", engine |-> engine]
    ELSE LET engine_class == GetEngineForModel(model_path, host)
         IN  IF engine_class = "None"
             THEN [raised |-> "no_engine", engine |-> engine]
             ELSE [raised |-> IF loads THEN "none" ELSE "engine_error",
                   engine |-> engine_class]

\* The client calls load_model on a new loader or on one that has loaded a
\* model before.
CallLoadModel ==
    /\ pc = "client"
    /\ call.n = 0
    /\ \E engine \in {"None", "ONNX", "CoreML"}, model_path \in ModelPaths,
          host \in LoaderHosts, exists \in BOOLEAN, loads \in BOOLEAN :
         call' = [op |-> "load_model", n |-> call.n + 1,
                  arg |-> [engine |-> engine, model_path |-> model_path, host |-> host,
                           exists |-> exists],
                  ret |-> LoadModel(engine, model_path, host, exists, loads)]
    /\ UNCHANGED <<pc, worker_id, running, heartbeat_running, queue_names, job_id,
                   job_info, result, hbPc, child, orphans, device, queues, results,
                   pushed, regResult, ops, popped, dropped, statusLog, lastStatus,
                   phaseLog, exitCause, interruptedJob, model_file, error, childStderr,
                   heartbeat_interval, heartbeat_thread, stale, hbTick, isConnected,
                   monitor>>

\* The engines of the registry, by index, that are available on the host
\* and support the extension.
Qualifying(ext, host) ==
    {i \in 1..Len(ENGINES) :
        IsAvailable(ENGINES[i].name, host) /\ ext \in ENGINES[i].supported_formats}

\* The last path component ends with the extension written in any case.
HasExtension(model_path, ext) ==
    LET n == Len(model_path)
        k == Len(ext)
    IN  /\ n > k
        /\ StrLower(SubSeq(model_path, n - k + 1, n)) = ext
        /\ model_path[n - k] \notin {"/", "."}
        /\ \A i \in (n - k + 1)..n : model_path[i] # "/"

\* C24: load_model of an existing local path takes the first engine of the
\* registry that is available and supports the file's lower-cased
\* extension; when no engine qualifies it raises and the loader's engine is
\* what it was, unset on a new loader.
C24_EngineSelection ==
    (call.op = "load_model" /\ call.arg.exists) =>
        LET a == call.arg
            exts == {e \in {Ext_onnx, Ext_mlmodel} : HasExtension(a.model_path, e)}
            q == UNION {Qualifying(e, a.host) : e \in exts}
        IN  /\ q # {} =>
                /\ call.ret.raised \in {"none", "engine_error"}
                /\ call.ret.engine = ENGINES[CHOOSE i \in q : \A j \in q : i <= j].name
            /\ q = {} =>
                /\ call.ret.raised = "no_engine"
                /\ call.ret.engine = a.engine
                /\ a.engine = "None" => call.ret.engine = "None"

\* C24 witness: on a Linux host with coremltools a new loader was given an
\* .mlmodel file, no engine qualified, and its engine is unset.
C24_Witness ==
    /\ call.op = "load_model"
    /\ call.arg.exists
    /\ call.arg.engine = "None"
    /\ call.arg.model_path = <<"m",".","m","l","m","o","d","e","l">>
    /\ call.arg.host = [ort |-> TRUE, ct |-> TRUE, system |-> "Linux"]
    /\ call.ret = [raised |-> "no_engine", engine |-> "None"]

\* What a path names: nothing, a file with content, a file of zero bytes
\* or a directory.
PathKinds == {"absent", "nonempty", "empty", "directory"}

\* What urllib.request.urlretrieve does to the target path: writes the whole
\* body, creates a file of zero bytes, returns without a file, or raises
\* with a partial file or with no file left behind.
FetchOutcomes == {"written", "zero_bytes", "not_created", "raise_partial", "raise_no_file"}

\* ModelLoader.download_model(model_url): local is what model_url names as a
\* local path, fetch what urlretrieve does, removable whether os.remove of
\* the target succeeds.  The result tells whether the call raised, which
\* path it returned, and what the returned path and the target path name
\* afterwards.
DownloadModel(local, fetch, removable) ==
    IF local # "absent"
    THEN [raised |-> FALSE, returned |-> "argument", at_returned |-> local,
          at_target |-> "absent"]
    ELSE LET written == CASE fetch = "written" -> "nonempty"
                          [] fetch = "zero_bytes" -> "empty"
                          [] fetch = "raise_partial" -> "nonempty"
                          [] OTHER -> "absent"
             left == IF written # "absent" /\ ~removable THEN written ELSE "absent"
         IN  IF fetch = "written"
             THEN [raised |-> FALSE, returned |-> "target", at_returned |-> "nonempty",
                   at_target |-> "nonempty"]
             ELSE [raised |-> TRUE, returned |-> "nothing", at_returned |-> "absent",
                   at_target |-> left]

\* The client calls download_model.
CallDownloadModel ==
    /\ pc = "client"
    /\ call.n = 0
    /\ \E local \in PathKinds, fetch \in FetchOutcomes, removable \in BOOLEAN :
         call' = [op |-> "download_model", n |-> call.n + 1,
                  arg |-> [local |-> local, fetch |-> fetch, removable |-> removable],
                  ret |-> DownloadModel(local, fetch, removable)]
    /\ UNCHANGED <<pc, worker_id, running, heartbeat_running, queue_names, job_id,
                   job_info, result, hbPc, child, orphans, device, queues, results,
                   pushed, regResult, ops, popped, dropped, statusLog, lastStatus,
                   phaseLog, exitCause, interruptedJob, model_file, error, childStderr,
                   heartbeat_interval, heartbeat_thread, stale, hbTick, isConnected,
                   monitor>>

\* C25: when download_model returns a path the path names an existing file
\* that is not empty, an existing local path being returned unchanged; when
\* it fails it raises and no file is left at the target path.
C25_DownloadedFileExistsOrNothingLeft ==
    call.op = "download_model" =>
        /\ call.arg.local # "absent" =>
             ~call.ret.raised /\ call.ret.returned = "argument"
        /\ ~call.ret.raised => call.ret.at_returned = "nonempty"
        /\ call.ret.raised => call.ret.at_target = "absent"

\* ---------------------------------------------------------------- measurement child, run_job_task

\* Bits of the significand of a floating-point number.  numpy's float64
\* has 53; the arithmetic below is IEEE 754 binary arithmetic (round to
\* nearest, ties to even) with this many bits and with 1 as its smallest
\* spacing, numbers being counted in that spacing.
MantissaBits == 3

\* Largest number of inference runs of one invocation.
MaxRuns == 3

RECURSIVE Pow2(_)
Pow2(k) == IF k = 0 THEN 1 ELSE 2 * Pow2(k - 1)

\* The exponent of a / n: the least e with a / n < 2^(MantissaBits + e).
RECURSIVE ExpFrom(_, _, _)
ExpFrom(a, n, e) == IF a < n * Pow2(MantissaBits + e) THEN e ELSE ExpFrom(a, n, e + 1)

\* The floating-point number nearest to a / n, ties to the even significand.
Fl(a, n) ==
    LET e == ExpFrom(a, n, 0)
        d == n * Pow2(e)
        q == a \div d
        r == a % d
    IN  (IF 2 * r > d \/ (2 * r = d /\ q % 2 = 1) THEN q + 1 ELSE q) * Pow2(e)

\* np.add.reduce of fewer than eight elements: a running sum, rounded at
\* each addition.
RECURSIVE Sum(_)
Sum(s) == IF s = <<>> THEN 0 ELSE Fl(Sum(SubSeq(s, 1, Len(s) - 1)) + s[Len(s)], 1)

\* np.mean
Mean(s) == Fl(Sum(s), Len(s))

\* The k-th smallest element of s.
Kth(s, k) ==
    CHOOSE v \in {s[i] : i \in 1..Len(s)} :
        /\ Cardinality({i \in 1..Len(s) : s[i] < v}) < k
        /\ k <= Cardinality({i \in 1..Len(s) : s[i] <= v})

\* np.median: the middle element, or the mean of the two middle elements.
Median(s) ==
    LET n == Len(s)
    IN  IF n % 2 = 1 THEN Mean(<<Kth(s, (n + 1) \div 2)>>)
        ELSE Mean(<<Kth(s, n \div 2), Kth(s, n \div 2 + 1)>>)

\* np.min
Min(s) == CHOOSE v \in {s[i] : i \in 1..Len(s)} : \A i \in 1..Len(s) : v <= s[i]

\* np.max
Max(s) == CHOOSE v \in {s[i] : i \in 1..Len(s)} : \A i \in 1..Len(s) : s[i] <= v

\* np.sqrt: the floating-point number nearest to the square root.
Sqrt(v) ==
    LET r == CHOOSE x \in 0..v : x * x <= v /\ v < (x + 1) * (x + 1)
    IN  Fl(IF v > r * r + r THEN r + 1 ELSE r, 1)

\* np.std: sqrt(mean(abs(x - mean(x)) ** 2))
Std(s) ==
    LET m == Mean(s)
        dev == [i \in 1..Len(s) |-> Fl(IF s[i] >= m THEN s[i] - m ELSE m - s[i], 1)]
        sq == [i \in 1..Len(s) |-> Fl(dev[i] * dev[i], 1)]
    IN  Sqrt(Fl(Sum(sq), Len(s)))

\* run_load_task's return value for a load that took load_time_ms.
LoadMetrics(load_time_ms) ==
    [task |-> "load", Median |-> load_time_ms, Min |-> load_time_ms, Max |-> load_time_ms,
     Average |-> load_time_ms, StdDev |-> 0, First |-> load_time_ms]

\* run_infer_task's return value (lines 116-126) for a non-empty
\* inference_times.
InferMetrics(inference_times) ==
    [task |-> "infer", Median |-> Median(inference_times), Min |-> Min(inference_times),
     Max |-> Max(inference_times), Average |-> Mean(inference_times),
     StdDev |-> IF Len(inference_times) > 1 THEN Std(inference_times) ELSE 0,
     First |-> inference_times[1]]

\* The times a run can take: the floating-point numbers of one binade, far
\* enough above the smallest spacing for no intermediate result of the
\* statistics to fall below it.
SampleValues ==
    {m * Pow2(2 * MantissaBits) : m \in Pow2(MantissaBits - 1)..(Pow2(MantissaBits) - 1)}

\* The lists of n times.
RECURSIVE SampleLists(_)
SampleLists(n) ==
    IF n = 0 THEN {<<>>}
    ELSE {Append(l, v) : l \in SampleLists(n - 1), v \in SampleValues}

\* What one invocation of run_job_task leaves: the exit code, the JSON
\* objects on stdout, the texts on stderr and the phases run.
Outcome(code, stdout, stderr, phases) ==
    [code |-> code, stdout |-> stdout, stderr |-> stderr, phases |-> phases]

\* run_job_task.main for --task task and a --num-runs text that argparse
\* accepts (valid) or not.  times are the times the runs take (one time for
\* load); fails tells whether the model loader or the engine raises.
Main(task, valid, times, fails) ==
    IF ~valid
    THEN Outcome(2, <<>>, <<[json |-> FALSE, task |-> "none"]>>, <<>>)
    ELSE IF fails \/ (task = "infer" /\ times = <<>>)
    THEN Outcome(1, <<>>, <<[json |-> TRUE, task |-> task]>>, <<task>>)
    ELSE Outcome(0, <<IF task = "load" THEN LoadMetrics(times[1]) ELSE InferMetrics(times)>>,
                 <<>>, <<task>>)

\* The supervisor, or anyone, runs python -m worker.run_job_task once.
CallRunJobTask ==
    /\ pc = "client"
    /\ call.n = 0
    /\ \E task \in {"load", "infer"}, valid \in BOOLEAN, fails \in BOOLEAN :
         \E times \in IF task = "load" THEN SampleLists(1)
                      ELSE UNION {SampleLists(n) : n \in 0..MaxRuns} :
            call' = [op |-> "run_job_task", n |-> call.n + 1,
                     arg |-> [task |-> task, valid |-> valid, times |-> times,
                              fails |-> fails],
                     ret |-> Main(task, valid, times, fails)]
    /\ UNCHANGED <<pc, worker_id, running, heartbeat_running, queue_names, job_id,
                   job_info, result, hbPc, child, orphans, device, queues, results,
                   pushed, regResult, ops, popped, dropped, statusLog, lastStatus,
                   phaseLog, exitCause, interruptedJob, model_file, error, childStderr,
                   heartbeat_interval, heartbeat_thread, stale, hbTick, isConnected,
                   monitor>>

\* C26: the statistics the measurement child prints for a non-empty list of
\* times satisfy Min <= Median <= Max, Average >= Min, StdDev >= 0,
\* StdDev = 0 exactly when all times are equal, First = the first time; for
\* one time all of Min, Median, Max, Average and First are that time and
\* StdDev is 0.
C26_StatisticsAreConsistent ==
    (call.op = "run_job_task" /\ call.ret.code = 0) =>
        LET m == call.ret.stdout[1]
            times == call.arg.times
            equal == \A i, j \in 1..Len(times) : times[i] = times[j]
        IN  /\ m.Min <= m.Median
            /\ m.Median <= m.Max
            /\ m.Average >= m.Min
            /\ m.StdDev >= 0
            /\ m.StdDev = 0 <=> equal
            /\ m.First = times[1]
            /\ Len(times) = 1 =>
                 /\ m.Min = times[1] /\ m.Median = times[1] /\ m.Max = times[1]
                 /\ m.Average = times[1] /\ m.StdDev = 0

\* C27: an invocation of the measurement child runs exactly one phase and
\* ends either with exit code 0, one JSON metrics object on stdout and
\* nothing on stderr, or with a non-zero exit code, one JSON object
\* {error, task} on stderr and nothing on stdout; every error of the phase,
\* zero inference runs included, gives the second outcome.
C27_ChildOutcomes ==
    call.op = "run_job_task" =>
        LET r == call.ret
            success == r.code = 0 /\ Len(r.stdout) = 1 /\ r.stderr = <<>>
            failure == /\ r.code # 0
                       /\ r.stdout = <<>>
                       /\ Len(r.stderr) = 1
                       /\ r.stderr[1].json
                       /\ r.stderr[1].task = call.arg.task
        IN  /\ Len(r.phases) = 1
            /\ success \/ failure
            /\ ~(success /\ failure)
            /\ (call.arg.fails \/ (call.arg.task = "infer" /\ call.arg.times = <<>>))
                 => failure

\* ---------------------------------------------------------------- device name, command line

\* The texts a probe of the machine can give: nothing, the empty string, a
\* blank, or a name.
ProbeTexts == {NoneId, EmptyStr, <<" ">>, <<"X">>}

\* What get_device_info finds: platform.system(), platform.node(), two texts
\* read for the system (Darwin: Model Name and Model Identifier of
\* system_profiler; Linux: board_name and sys_vendor; Windows: the model line
\* of wmic in a), uuid.getnode() as text, and whether the hostname_MAC
\* fallbacks raise.
DeviceProbes ==
    [system : {"Darwin", "Linux", "Windows", "Other"},
     node : {EmptyStr, <<" ">>, <<"h">>},
     a : ProbeTexts,
     b : ProbeTexts,
     mac : {<<"0">>, <<"5">>},
     fallback_raises : BOOLEAN,
     safety_raises : BOOLEAN]

\* A text read from a probe after str.strip(), None when nothing was read.
Stripped(t) == IF t = NoneId THEN NoneId ELSE Strip(t)

\* f"unknown_{uuid.uuid4()}"
UnknownUuid == <<"u","n","k","n","o","w","n","_","u">>

\* device_name as lines 115-199 leave it, before the safety check.
DetectedName(p) ==
    LET a == Stripped(p.a)
        b == Stripped(p.b)
        hostname_mac == p.node \o <<"_">> \o p.mac
    IN  CASE p.system = "Darwin" ->
               IF Truthy(a) /\ Truthy(b) THEN a \o <<" ", "(">> \o b \o <<")">>
               ELSE IF Truthy(a) THEN a
               ELSE p.node
          [] p.system = "Linux" ->
               IF Truthy(a) /\ Truthy(b) THEN b \o <<" ">> \o a
               ELSE IF Truthy(a) THEN a
               ELSE IF Truthy(b) THEN b
               ELSE p.node
          [] p.system = "Windows" ->
               IF Truthy(a) THEN a
               ELSE IF ~p.fallback_raises /\ hostname_mac # <<"_", "0">> THEN hostname_mac
               ELSE p.node
          [] OTHER -> p.node

\* get_device_info without the safety check of lines 207-216.
GetDeviceNameNoSafetyCheck(p) == DetectedName(p)

\* The DeviceName of get_device_info's result (lines 115-222).
GetDeviceName(p) ==
    LET device_name == DetectedName(p)
    IN  IF device_name = EmptyStr \/ Strip(device_name) = EmptyStr
        THEN IF p.safety_raises THEN UnknownUuid ELSE p.node \o <<"_">> \o p.mac
        ELSE device_name

\* The client calls get_device_info.
CallGetDeviceInfo ==
    /\ pc = "client"
    /\ call.n = 0
    /\ \E p \in DeviceProbes :
         call' = [op |-> "get_device_info", n |-> call.n + 1, arg |-> p,
                  ret |-> GetDeviceName(p)]
    /\ UNCHANGED <<pc, worker_id, running, heartbeat_running, queue_names, job_id,
                   job_info, result, hbPc, child, orphans, device, queues, results,
                   pushed, regResult, ops, popped, dropped, statusLog, lastStatus,
                   phaseLog, exitCause, interruptedJob, model_file, error, childStderr,
                   heartbeat_interval, heartbeat_thread, stale, hbTick, isConnected,
                   monitor>>

CliCommands == {"none", "start", "enroll", "info", "validate", "test"}

\* cli.main: the exit code of cyclops-worker for a command.  parsed tells
\* whether argparse accepts the arguments (required ones present), ok
\* whether what the command does succeeds: registration for start,
\* run_enrollment for enroll, the probes for info, the imports for validate,
\* the requests to the orchestrator and the broker for test.
CliMain(command, parsed, ok) ==
    IF ~parsed THEN 2
    ELSE CASE command = "none" -> 1
           [] command = "start" -> IF ok THEN 0 ELSE 1
           [] command = "enroll" -> IF ok THEN 0 ELSE 1
           [] command = "info" -> IF ok THEN 0 ELSE 1
           [] command = "validate" -> IF ok THEN 0 ELSE 1
           [] command = "test" -> 0

\* The client runs cyclops-worker.
CallCliMain ==
    /\ pc = "client"
    /\ call.n = 0
    /\ \E command \in CliCommands, parsed \in BOOLEAN, ok \in BOOLEAN :
         call' = [op |-> "cli", n |-> call.n + 1,
                  arg |-> [command |-> command, parsed |-> parsed, ok |-> ok],
                  ret |-> CliMain(command, parsed, ok)]
    /\ UNCHANGED <<pc, worker_id, running, heartbeat_running, queue_names, job_id,
                   job_info, result, hbPc, child, orphans, device, queues, results,
                   pushed, regResult, ops, popped, dropped, statusLog, lastStatus,
                   phaseLog, exitCause, interruptedJob, model_file, error, childStderr,
                   heartbeat_interval, heartbeat_thread, stale, hbTick, isConnected,
                   monitor>>

\* C30: a command line ends with exit code 0 when its command succeeds and
\* with exit code 1 on every failure: arguments missing, no command, failed
\* validation, failed registration, failed connectivity test.
C30_CliExitCodes ==
    call.op = "cli" =>
        call.ret = IF call.arg.command # "none" /\ call.arg.parsed /\ call.arg.ok
                   THEN 0 ELSE 1

\* The dispatcher routes a job with determine_queues while a worker with id
\* w and capability list caps listens on get_job_queue_names() =
\* get_worker_queue_priority(w, caps) (worker_agent.py lines 471-476).
CallRoute ==
    /\ pc = "client"
    /\ call.n = 0
    /\ \E w \in PriorityWorkerIds, caps \in CapLists(MaxCapLen), info \in RoutingJobs :
         call' = [op |-> "route", n |-> call.n + 1,
                  arg |-> [worker_id |-> w, capabilities |-> caps, job |-> info],
                  ret |-> [queues |-> DetermineQueues(info),
                           listens |-> GetWorkerQueuePriority(w, caps)]]
    /\ UNCHANGED <<pc, worker_id, running, heartbeat_running, queue_names, job_id,
                   job_info, result, hbPc, child, orphans, device, queues, results,
                   pushed, regResult, ops, popped, dropped, statusLog, lastStatus,
                   phaseLog, exitCause, interruptedJob, model_file, error, childStderr,
                   heartbeat_interval, heartbeat_thread, stale, hbTick, isConnected,
                   monitor>>

LibraryNext ==
    \/ CallRoute
    \/ CallGetWorkerQueuePriority
    \/ CallNormalise
    \/ CallGetProviders
    \/ CallLoadModel
    \/ CallDownloadModel
    \/ CallRunJobTask
    \/ CallGetDeviceInfo
    \/ CallCliMain

\* A client applying one function of the dispatcher or of the worker's
\* libraries to arguments; the functions keep no state between calls, so a
\* behaviour holds one application.
LibrarySpec == ClientInit /\ [][LibraryNext]_vars

C31_ResultPushedBeforeActive ==
    \A i \in 1..Len(statusLog) :
        statusLog[i] = WORKER_STATUS_ACTIVE => ResultCount(job_id) >= 1

\* The number of elements of all job queues together.
QueuedJobs ==
    LET RECURSIVE Total(_)
        Total(ks) == IF ks = {} THEN 0
                     ELSE LET k == CHOOSE x \in ks : TRUE
                          IN  Len(queues[k]) + Total(ks \ {k})
    IN  Total(DOMAIN queues)

\* C32: from the pop of a job id to the end of its publish attempt the
\* supervisor pops nothing: a job id is popped only by the step that leaves
\* the blocking pop, one id at a time, with no job in hand; while a job is
\* handled no queue loses an element; so at most one popped job is not yet
\* handled in any state.
C32_SingleJobAtATime ==
    /\ [][popped' # popped =>
            /\ pc = "pop" /\ pc' = "details"
            /\ job_id = 0
            /\ job_id' \notin popped
            /\ popped' = popped \cup {job_id'}]_vars
    /\ [][(pc \in JobPcs) =>
            /\ popped' = popped
            /\ QueuedJobs <= QueuedJobs']_vars
    /\ [](pc \in JobPcs => job_id \in popped)
    /\ [](Cardinality({j \in popped : ~Handled(j)}) <= 1)

\* C32 witness: the result of a job is about to be pushed while another job
\* id waits in a queue the worker listens on.
C32_Witness ==
    /\ pc = "publish"
    /\ job_id \in popped
    /\ FirstNonEmpty(queue_names) # 0

\* ---------------------------------------------------------------- stopping the ticker

\* _heartbeat_loop line 144: range(int(interval * 10)), the 0.1 s slices of
\* one period.
Slices(interval) == interval * 10

\* The for loop of lines 144-148 without its test of the flag: the thread
\* sleeps out the period.
HbSliceSleepsOut ==
    /\ hbPc = "sleep"
    /\ IF hbTick.slept < Slices(heartbeat_interval)
       THEN /\ hbTick' = [hbTick EXCEPT !.slept = @ + 1]
            /\ hbPc' = "sleep"
       ELSE /\ hbTick' = NoTick
            /\ hbPc' = "check"
    /\ UNCHANGED <<pc, worker_id, running, heartbeat_running, queue_names, job_id,
                   job_info, result, child, orphans, device, queues, results, pushed,
                   regResult, ops, popped, dropped, statusLog, lastStatus, phaseLog,
                   exitCause, interruptedJob, model_file, error, childStderr,
                   heartbeat_interval, heartbeat_thread, stale, isConnected, call,
                   monitor>>

\* _heartbeat_loop lines 144-148, one pass of the for loop: the flag is read;
\* cleared, the loop is left (break); set, the thread sleeps one slice of
\* 0.1 s, until the int(interval * 10) slices are used up.
HbSlice ==
    /\ hbPc = "sleep"
    /\ IF hbTick.slept < Slices(heartbeat_interval) /\ heartbeat_running
       THEN /\ hbTick' = [hbTick EXCEPT !.slept = @ + 1]
            /\ hbPc' = "sleep"
       ELSE /\ hbTick' = NoTick
            /\ hbPc' = "check"
    /\ UNCHANGED <<pc, worker_id, running, heartbeat_running, queue_names, job_id,
                   job_info, result, child, orphans, device, queues, results, pushed,
                   regResult, ops, popped, dropped, statusLog, lastStatus, phaseLog,
                   exitCause, interruptedJob, model_file, error, childStderr,
                   heartbeat_interval, heartbeat_thread, stale, isConnected, call,
                   monitor>>

HeartbeatStopNext ==
    \/ CallStart
    \/ CallStop
    \/ HbCheck
    \/ HbReply
    \/ HbSlice
    \/ StaleThread

\* The steps of the heartbeat threads, the current one slice by slice.
HeartbeatThreads == HbCheck \/ HbReply \/ HbSlice \/ StaleThread

\* A client calling the two heartbeat methods while the heartbeat thread
\* sleeps slice by slice.  The threads are operating-system threads and are
\* scheduled whenever they can run; requests.post returns or raises within
\* its timeout of 5 s.
HeartbeatStopSpec ==
    ClientInit /\ [][HeartbeatStopNext]_vars /\ WF_vars(HeartbeatThreads)

\* C33: when stop_continuous_heartbeat has cleared heartbeat_running for
\* good, every heartbeat loop terminates; a thread that takes a step in its
\* sleep with the flag cleared leaves the sleep instead of sleeping another
\* slice; and while the flag is cleared no heartbeat request is started.
C33_StopIsPrompt ==
    /\ (<>[](~heartbeat_running)) => <>[](hbPc \in {"none", "done"} /\ stale = <<>>)
    /\ [][(hbPc = "sleep" /\ ~heartbeat_running /\ hbTick' # hbTick) =>
             hbPc' = "check"]_vars
    /\ [][(~heartbeat_running /\ hbPc # "post") => hbPc' # "post"]_vars

\* stop_continuous_heartbeat returned while the thread was in the middle of
\* its period.
C33_Witness ==
    /\ call.op = "stop"
    /\ ~heartbeat_running
    /\ hbPc = "sleep"
    /\ hbTick.slept > 0
    /\ hbTick.slept < Slices(heartbeat_interval)

\* C34: whatever the order of the start and stop calls and of the threads'
\* steps, at most one heartbeat loop sends heartbeats: while the ticker is on,
\* no thread other than the one heartbeat_thread refers to is inside a
\* heartbeat request.
C34_AtMostOneLoopSending ==
    heartbeat_running => \A i \in 1..Len(stale) : stale[i] # "post"

\* C35: execute_benchmark_job deletes only what it downloaded: when the
\* job's model_url is an existing local file, the file still exists when
\* the job's record, Complete or Failed, has been built.
C35_LocalModelFileKept ==
    (pc = "publish" /\ "model_url" \in DOMAIN job_info
        /\ job_info["model_url"] \in LocalFiles) => model_file

\* C36: dispatcher and worker agree on routing.  A job pinned to worker w is
\* routed to the first queue w listens on; an unpinned job whose compute_unit
\* is one of w's capabilities is routed to a queue w listens on; an unpinned
\* job whose compute_unit normalises to the key of none of w's capabilities is
\* routed to one queue, and w does not listen on it.
C36_DispatcherAndWorkerAgree ==
    call.op = "route" =>
        LET info == call.arg.job
            caps == call.arg.capabilities
            unit == Get(info, "compute_unit")
        IN  /\ Get(info, "worker_id") = call.arg.worker_id =>
                 call.ret.queues = <<call.ret.listens[1]>>
            /\ (~IsSet(info, "worker_id") /\ InSeq(unit, caps)) =>
                 /\ Len(call.ret.queues) = 1
                 /\ InSeq(call.ret.queues[1], call.ret.listens)
            /\ (~IsSet(info, "worker_id") /\ IsSet(info, "compute_unit")
                    /\ \A i \in 1..Len(caps) : Normalise(caps[i]) # Normalise(unit)) =>
                 /\ Len(call.ret.queues) = 1
                 /\ ~InSeq(call.ret.queues[1], call.ret.listens)

\* A job pinned to the worker that also names a compute unit the worker has,
\* routed to the worker's personal queue.
C36_Witness ==
    /\ call.op = "route"
    /\ Get(call.arg.job, "worker_id") = call.arg.worker_id
    /\ InSeq(Get(call.arg.job, "compute_unit"), call.arg.capabilities)
    /\ call.ret.queues = <<JobsPrefix \o call.arg.worker_id>>

\* The children spawned so far in the current job.
SpawnCount ==
    Cardinality({i \in 1..Len(phaseLog) : phaseLog[i] \in {"load_spawn", "infer_spawn"}})

\* C37: the infer child is spawned only when the load child has exited 0
\* with parsable metrics and nothing has failed in the job; a load child
\* that fails is followed by no infer child; a job spawns at most two
\* children; and once something has failed in a job (so in every failed job
\* once its first failing child is reaped) no child exists or is spawned.
C37_InferOnlyAfterLoadSuccess ==
    /\ [][(child'.task = "infer" /\ child.task # "infer") =>
            /\ pc = "infer_spawn"
            /\ error = NoneId
            /\ phaseLog[Len(phaseLog)] = "load_exit"]_vars
    /\ [][(pc' = "infer_spawn" /\ pc # "infer_spawn") =>
            /\ pc = "load_wait"
            /\ child.task = "load"
            /\ child.st = "exit0"]_vars
    /\ [](SpawnCount <= 2)
    /\ [](error # NoneId =>
            /\ child = NoChild
            /\ pc \notin {"load_spawn", "load_wait", "infer_spawn", "infer_wait"})

\* The load child exited non-zero and the job is in its except block, with
\* one child spawned.
C37_Witness ==
    /\ pc = "fail_active"
    /\ phaseLog = <<"download", "load_spawn", "load_exit">>
    /\ childStderr # NoneId

\* ---------------------------------------------------------------- resource monitor

\* Largest number of samples the monitor thread takes of one child.
MaxSamples == 2

\* 1024 ** 2 (worker_agent.py line 273)
MiB == 1024 * 1024

\* What memory_info().rss may read, in bytes.
RssValues == {MiB, 2 * MiB}

\* What cpu_percent(interval=None) may read.
CpuValues == {0, Pow2(2 * MantissaBits)}

\* dict.get(k, default)
GetOr(d, k, default) == IF k \in DOMAIN d THEN d[k] ELSE default

\* _run_benchmark_task lines 237-257: Popen started the child, and the
\* monitor thread was created with an empty results dict and started.
CallRunBenchmarkTask ==
    /\ pc = "client"
    /\ monitor.runner = "none"
    /\ \E task \in {"load", "infer"} :
         child' = [task |-> task, st |-> "running", err |-> EmptyStr]
    /\ monitor' = [NoMonitor EXCEPT !.runner = "communicate", !.thread = "baseline"]
    /\ UNCHANGED <<pc, worker_id, running, heartbeat_running, queue_names, job_id, job_info,
                   result, hbPc, orphans, device, queues, results, pushed, regResult, ops,
                   popped, dropped, statusLog, lastStatus, phaseLog, exitCause,
                   interruptedJob, model_file, error, childStderr, heartbeat_interval,
                   heartbeat_thread, stale, hbTick, isConnected, call>>

\* _monitor_subprocess lines 192-197: the baseline cpu_percent call;
\* NoSuchProcess (the child is gone) leads to the finally block.
MonBaseline ==
    /\ monitor.thread = "baseline"
    /\ monitor' = [monitor EXCEPT !.thread = IF child.st = "running" THEN "test"
                                             ELSE "finally_ram"]
    /\ UNCHANGED <<pc, worker_id, running, heartbeat_running, queue_names, job_id, job_info,
                   result, hbPc, child, orphans, device, queues, results, pushed, regResult,
                   ops, popped, dropped, statusLog, lastStatus, phaseLog, exitCause,
                   interruptedJob, model_file, error, childStderr, heartbeat_interval,
                   heartbeat_thread, stale, hbTick, isConnected, call>>

\* Line 199: while proc.is_running() and proc.status() != psutil.STATUS_ZOMBIE
MonTest ==
    /\ monitor.thread = "test"
    /\ monitor' = [monitor EXCEPT !.thread = IF child.st = "running" THEN "sample"
                                             ELSE "finally_ram"]
    /\ UNCHANGED <<pc, worker_id, running, heartbeat_running, queue_names, job_id, job_info,
                   result, hbPc, child, orphans, device, queues, results, pushed, regResult,
                   ops, popped, dropped, statusLog, lastStatus, phaseLog, exitCause,
                   interruptedJob, model_file, error, childStderr, heartbeat_interval,
                   heartbeat_thread, stale, hbTick, isConnected, call>>

\* Lines 200-211: one sample of RSS and CPU and the sleep of 5 ms, or
\* NoSuchProcess and the break.
MonSample ==
    /\ monitor.thread = "sample"
    /\ IF child.st = "running"
       THEN /\ Len(monitor.cpu_samples) < MaxSamples
            /\ \E current_ram \in RssValues, cpu \in CpuValues :
                 monitor' = [monitor EXCEPT
                               !.peak_ram = IF current_ram > @ THEN current_ram ELSE @,
                               !.cpu_samples = Append(@, cpu),
                               !.thread = "test"]
       ELSE monitor' = [monitor EXCEPT !.thread = "finally_ram"]
    /\ UNCHANGED <<pc, worker_id, running, heartbeat_running, queue_names, job_id, job_info,
                   result, hbPc, child, orphans, device, queues, results, pushed, regResult,
                   ops, popped, dropped, statusLog, lastStatus, phaseLog, exitCause,
                   interruptedJob, model_file, error, childStderr, heartbeat_interval,
                   heartbeat_thread, stale, hbTick, isConnected, call>>

\* Line 217: results['peak_ram_bytes'] = peak_ram
MonFinallyRam ==
    /\ monitor.thread = "finally_ram"
    /\ monitor' = [monitor EXCEPT
                     !.results = ("peak_ram_bytes" :> monitor.peak_ram) @@ @,
                     !.thread = "finally_cpu"]
    /\ UNCHANGED <<pc, worker_id, running, heartbeat_running, queue_names, job_id, job_info,
                   result, hbPc, child, orphans, device, queues, results, pushed, regResult,
                   ops, popped, dropped, statusLog, lastStatus, phaseLog, exitCause,
                   interruptedJob, model_file, error, childStderr, heartbeat_interval,
                   heartbeat_thread, stale, hbTick, isConnected, call>>

\* Lines 218-221: results['average_cpu_percent'] = sum / len, or 0.0 without
\* samples; the thread ends.
MonFinallyCpu ==
    /\ monitor.thread = "finally_cpu"
    /\ monitor' = [monitor EXCEPT
                     !.results = ("average_cpu_percent" :>
                                    (IF monitor.cpu_samples # <<>>
                                     THEN Mean(monitor.cpu_samples) ELSE 0)) @@ @,
                     !.thread = "done"]
    /\ UNCHANGED <<pc, worker_id, running, heartbeat_running, queue_names, job_id, job_info,
                   result, hbPc, child, orphans, device, queues, results, pushed, regResult,
                   ops, popped, dropped, statusLog, lastStatus, phaseLog, exitCause,
                   interruptedJob, model_file, error, childStderr, heartbeat_interval,
                   heartbeat_thread, stale, hbTick, isConnected, call>>

\* Line 259: proc.communicate() returns when the child has exited.
RunCommunicate ==
    /\ monitor.runner = "communicate"
    /\ child.st # "running"
    /\ monitor' = [monitor EXCEPT !.runner = "join"]
    /\ UNCHANGED <<pc, worker_id, running, heartbeat_running, queue_names, job_id, job_info,
                   result, hbPc, child, orphans, device, queues, results, pushed, regResult,
                   ops, popped, dropped, statusLog, lastStatus, phaseLog, exitCause,
                   interruptedJob, model_file, error, childStderr, heartbeat_interval,
                   heartbeat_thread, stale, hbTick, isConnected, call>>

\* Line 261: monitor_thread.join(timeout=1.0) returns when the thread has
\* ended, or after one second with the thread still alive.
RunJoin ==
    /\ monitor.runner = "join"
    /\ \E joined \in BOOLEAN :
         /\ joined => monitor.thread = "done"
         /\ monitor' = [monitor EXCEPT !.runner = "parse"]
    /\ UNCHANGED <<pc, worker_id, running, heartbeat_running, queue_names, job_id, job_info,
                   result, hbPc, child, orphans, device, queues, results, pushed, regResult,
                   ops, popped, dropped, statusLog, lastStatus, phaseLog, exitCause,
                   interruptedJob, model_file, error, childStderr, heartbeat_interval,
                   heartbeat_thread, stale, hbTick, isConnected, call>>

\* Lines 263-276: a non-zero exit code or unparsable output raises; otherwise
\* the two values are read from the shared dict with defaults 0 and 0.0.
RunReturn ==
    /\ monitor.runner = "parse"
    /\ IF child.st = "exit0"
       THEN monitor' = [monitor EXCEPT
                          !.runner = "returned",
                          !.ret = [peak_ram_mb |->
                                      Fl(GetOr(monitor.results, "peak_ram_bytes", 0), MiB),
                                   average_cpu |->
                                      GetOr(monitor.results, "average_cpu_percent", 0)]]
       ELSE monitor' = [monitor EXCEPT !.runner = "raised"]
    /\ UNCHANGED <<pc, worker_id, running, heartbeat_running, queue_names, job_id, job_info,
                   result, hbPc, child, orphans, device, queues, results, pushed, regResult,
                   ops, popped, dropped, statusLog, lastStatus, phaseLog, exitCause,
                   interruptedJob, model_file, error, childStderr, heartbeat_interval,
                   heartbeat_thread, stale, hbTick, isConnected, call>>

MonitorNext ==
    \/ CallRunBenchmarkTask
    \/ ChildExit
    \/ MonBaseline
    \/ MonTest
    \/ MonSample
    \/ MonFinallyRam
    \/ MonFinallyCpu
    \/ RunCommunicate
    \/ RunJoin
    \/ RunReturn

\* One call of _run_benchmark_task: the caller, the monitor thread and the
\* child, in any interleaving.
MonitorSpec == ClientInit /\ [][MonitorNext]_vars

\* C38: the peak RSS and the mean CPU that _run_benchmark_task returns are
\* the values its monitor thread recorded: the peak of the RSS samples in MiB
\* and the mean of the CPU samples (0 without samples).
C38_ReturnedValuesAreMonitored ==
    monitor.runner = "returned" =>
        /\ monitor.ret.peak_ram_mb = Fl(monitor.peak_ram, MiB)
        /\ monitor.ret.average_cpu =
             (IF monitor.cpu_samples # <<>> THEN Mean(monitor.cpu_samples) ELSE 0)

====
